---- MODULE Spec2Model ----
(***************************************************************************)
(* A model of picasound: the pipeline graph builder (load.rs), the node    *)
(* handle (pipeline.rs), the frame-identity generator and the memoizing    *)
(* nodes (util.rs, util/spectrum.rs, sources/random_color.rs,              *)
(* processors/average.rs, processors/loudness.rs).                         *)
(*                                                                         *)
(* Each component has its own specification over the shared variable list; *)
(* a specification leaves the variables of the other components at their   *)
(* idle values.                                                            *)
(***************************************************************************)
EXTENDS Integers, Sequences, FiniteSets, TLC

VARIABLES
    \* ---- PipelineConfig::pipeline (load.rs) ----
    definitions,   \* the definition set pipeline() was called on (never changes)
    pipeline,      \* self.pipeline: name -> definition; the walk removes entries
    pc,            \* position inside pipeline()
    sinks,         \* the local Vec `sinks`: names of sink-typed definitions
    graph,         \* the edges of the petgraph Graph (vertices are the names)
    sorted,        \* the part of toposort's output the walk has not reached yet
    registry,      \* NodeRegistry: name -> handle
    constructed,   \* one record per constructor invocation; a handle is its index
    outcome        \* what pipeline() returned

VARIABLES
    \* ---- FrameId::new and frame_id::get (util.rs) ----
    frame_id_counter,  \* the static FRAME_ID_COUNTER
    id_pc,             \* caller -> position inside FrameId::new
    id_got,            \* caller -> the value its fetch_add returned
    id_after,          \* caller -> how many calls had returned when its call began
    minted,            \* the values fetch_add returned, in the order of the fetch_adds
    returned           \* the FrameIds handed to the callers, in the order of the returns

VARIABLES
    \* ---- SpectrumStore (util/spectrum.rs) ----
    store_lock,    \* the holder of the Mutex `spectrum`, or "none"
    last_id,       \* SpectrumStore::last_id, a LastFrameId
    stft_output,   \* Stft::output, the buffer compute writes and get reads
    computations,  \* how many times Stft::compute has run
    st_pc,         \* caller -> position inside SpectrumStore::compute
    st_id,         \* caller -> the FrameId it pulls with
    st_data,       \* caller -> the sample window it passes
    st_last,       \* caller -> `last`, the value store_if_not_eq loaded
    st_stored,     \* caller -> what store_if_not_eq returned
    pull_log       \* the pulls in the order they got their spectrum

VARIABLES
    \* ---- RandomColor (sources/random_color.rs) ----
    rc_last_id,    \* RandomColor::last_id, a LastFrameId
    rc_counter,    \* FrameCounter::counter of RandomColor::frame_counter
    rc_modulo,     \* FrameCounter::modulo
    rc_cache,      \* RandomColor::cache, the colors of the cached frame
    rc_newest,     \* the newest FrameId a caller has pulled with, -1 before any
    rc_pc,         \* caller -> position inside provide_video_frame
    rc_id,         \* caller -> the FrameId it pulls with
    rc_last,       \* caller -> `last`, the value store_if_not_eq loaded
    rc_stored,     \* caller -> what store_if_not_eq returned
    rc_value,      \* caller -> `value`, what fetch_add returned in fetch_inc
    rc_frame,      \* caller -> the colors of the frame it passed in
    rc_log         \* the finished pulls, in the order they returned

VARIABLES
    \* ---- AudioBuffer, Loudness, Average (util/audio.rs, processors/) ----
    ab_buf,        \* AudioBuffer::buf, the captured samples
    avg_alpha,     \* Average::alpha, in units of 1/AlphaDen
    avg_average,   \* Average::average
    nm_seen,       \* <<node, id>> -> the first result a pull of it returned
    nm_pulls       \* the pulls the driver's last call made: node, id, result

VARIABLES
    \* ---- NodeRef (pipeline.rs) ----
    cell,          \* node -> who holds the borrow of its AtomicRefCell
    ref_pc,        \* driver -> position inside its pull
    ref_id,        \* driver -> the FrameId it pulls with
    ref_target,    \* driver -> the node its sink pulls from
    ref_done       \* number of pulls that returned to their driver

VARIABLES
    \* ---- AudioBuffer under capture pushes and reads (util/audio.rs) ----
    au_lock,       \* who holds AudioBuffer::buf's mutex: "free", "view"
    au_pc,         \* the capture thread's position inside push
    au_chunk,      \* the chunk the capture thread is pushing
    au_pushed,     \* the number of samples accepted so far
    au_new_head,   \* the new_head the last compaction computed
    au_last,       \* the last call of push that passed or failed its assertion
    au_view        \* the AudioDataGuard that is alive, if any

VARIABLES
    \* ---- one node called through the Node trait (pipeline.rs) ----
    nd_type,       \* the kind of the node
    nd_calls       \* the calls made on it so far: method and outcome

VARIABLES
    \* ---- NodeFactory (pipeline.rs) ----
    fa_constructors,  \* the keys of NodeFactory::constructors
    fa_pc,            \* "default" inside NodeFactory::default, then "ready"
    fa_todo,          \* the register calls NodeFactory::default has yet to make
    fa_default,       \* whether the factory comes from NodeFactory::default
    fa_names          \* every type name register was called with, in order

VARIABLES
    \* ---- one constructor call and the pulls of the node it built ----
    ct_type,       \* the kind of node that is constructed
    ct_inputs,     \* the kinds of the nodes behind the inputs it is given
    ct_options,    \* the options it is given
    ct_pc,         \* "new", then "built", "failed" or "panicked"
    ct_result,     \* what the constructor returned
    ct_pulls       \* the pulls the built node has issued to its inputs

VARIABLES
    \* ---- one Equalizer drawing into the frame it is handed ----
    eq_frame,      \* the VideoFrame: <<x, y>> -> the four bytes of the pixel
    eq_before,     \* the frame as it was when the last pull began
    eq_spectrum,   \* the magnitudes of the spectrum the last pull got
    eq_outcome,    \* "none", then "returned" or "panicked" for the last pull
    eq_pulls       \* the pulls made so far

VARIABLES
    \* ---- one Merge node: its construction and its pulls ----
    mg_inputs,     \* the inputs handed to Merge::new: what each draws
    mg_options,    \* the `contributions` and `mode` options
    mg_pc,         \* "new", then "built", "failed" or "panicked"
    mg_result,     \* what Merge::new returned
    mg_contributions,\* Merge::contributions
    mg_mode,       \* Merge::mode
    mg_id,         \* the FrameId of the last pull of the node
    mg_pulls,      \* the pulls the last pull of the node issued: input, id
    mg_handed,     \* the frames those pulls were handed, in the same order
    mg_frame       \* the pixel of the caller's frame after the last pull

VARIABLES
    \* ---- pulls of one SpectrumNode over a device source, and its capture thread ----
    sn_audio_lock, \* AudioBuffer::buf's mutex: "free" or the thread that holds it
    sn_store_lock, \* SpectrumStore::spectrum's mutex: "free" or its holder
    sn_pc,         \* each thread's position
    sn_id,         \* the FrameId of each puller's call
    sn_last_id,    \* SpectrumStore::last_id
    sn_access,     \* how the pullers reach the node: through its NodeRef or directly
    sn_cell        \* the AtomicRefCell of the NodeRef: free, or the thread that borrowed it

VARIABLES
    \* ---- the need_data callback of one sink and the pulls of its ticks ----
    tk_pipeline,   \* the nodes behind the sink: name -> kind and inputs
    tk_pc,         \* the callback's position: "idle", "cleared" or "pulled"
    tk_i,          \* the callback's tick counter i
    tk_counter,    \* FRAME_ID_COUNTER
    tk_frame,      \* the sink's frame: "clear", or "drawn" by the last pull
    tk_log         \* one record for each tick that has pulled

VARIABLES
    \* ---- device sources and the thread that manages their streams ----
    sm_queue,      \* the command channel of MANAGER_THREAD, oldest first
    sm_streams,    \* the manager's `streams` map: the ids it holds a stream for
    sm_counter,    \* the manager's `counter`
    sm_pc,         \* the manager thread: "running" or "panicked"
    sm_reply,      \* the reply each waiting sender has been sent, or "none"
    sm_tail,       \* for each stream id, the last two commands processed for it
    dv_pc,         \* each device source's position in its life
    dv_id,         \* DeviceSource::stream, the id in its StreamHandle
    dv_refs,       \* the NodeRef handles (Arc clones) of each device source
    dv_sent        \* the commands each device source's teardown has sent

VARIABLES
    \* ---- one SpectrumStore with a frequency range and the Spectrum it returns ----
    bn_store,      \* the store: orig_len of its transform, sample rate, f_min, f_max
    bn_pc,         \* "new", then "computed", or "panicked" in compute
    bn_spectrum,   \* the Spectrum compute returned: bin0 and the length of the view
    bn_call,       \* the last call of freq and bin_for on the Spectrum
    bn_index       \* the last spectrum[bin] of an Equalizer drawing the Spectrum

VARIABLES
    \* ---- concurrent provide_number calls on one Average node ----
    av_access,     \* how the callers reach the node: through its NodeRef or by &self
    av_cell,       \* the NodeRef's AtomicRefCell: "free" or the caller that borrowed it
    av_factor,     \* Average::alpha, in units of 1/AlphaDen
    av_stored,     \* Average::average
    av_pc,         \* each caller's position
    av_current,    \* each caller's `current`
    av_previous,   \* each caller's `previous`
    av_calls,      \* the calls each caller has begun
    av_applied     \* the `current` of every call that has returned

VARIABLES
    \* FrameCounter::fetch_inc under concurrent calls (util/misc.rs)
    fc_counter,    \* FrameCounter.counter, the AtomicUsize
    fc_modulo,     \* FrameCounter.modulo
    fc_pc,         \* caller -> where it is in fetch_inc
    fc_value,      \* caller -> the local `value`
    fc_returns     \* what the calls were answered, in the order of their fetch_add

VARIABLES
    \* the two-validator form of validate_inputs (util/inputs.rs)
    pv_inputs,     \* the kinds of the nodes behind the inputs handed in
    pv_caps,       \* the two validators, a capability each
    pv_taken,      \* how many inputs the `inputs` iterator has yielded
    pv_used,       \* how many validators the `validators` iterator has yielded
    pv_validated,  \* the Vec `validated`, as positions of the input list
    pv_pc,         \* where validate is
    pv_result      \* what validate returned

VARIABLES
    \* two runs of PipelineConfig::pipeline on one definition set (load.rs)
    rn_definitions,\* the definition set both runs are given
    rn_platform,   \* whether the platform collaborators answer
    rn_pc,         \* how many runs have returned
    rn_first,      \* what the first run returned
    rn_second      \* what the second run returned

buildVars == <<definitions, pipeline, pc, sinks, graph, sorted, registry,
               constructed, outcome>>

idVars == <<frame_id_counter, id_pc, id_got, id_after, minted, returned>>

storeVars == <<store_lock, last_id, stft_output, computations, st_pc, st_id,
               st_data, st_last, st_stored, pull_log>>

colorVars == <<rc_last_id, rc_counter, rc_modulo, rc_cache, rc_newest, rc_pc,
               rc_id, rc_last, rc_stored, rc_value, rc_frame, rc_log>>

numberVars == <<ab_buf, avg_alpha, avg_average, nm_seen, nm_pulls>>

refVars == <<cell, ref_pc, ref_id, ref_target, ref_done>>

nodeVars == <<nd_type, nd_calls>>

factoryVars == <<fa_constructors, fa_pc, fa_todo, fa_default, fa_names>>

constructVars == <<ct_type, ct_inputs, ct_options, ct_pc, ct_result, ct_pulls>>

audioVars == <<au_lock, au_pc, au_chunk, au_pushed, au_new_head, au_last, au_view>>

equalizerVars == <<eq_frame, eq_before, eq_spectrum, eq_outcome, eq_pulls>>

mergeVars == <<mg_inputs, mg_options, mg_pc, mg_result, mg_contributions, mg_mode, mg_id, mg_pulls, mg_handed, mg_frame>>

spectrumVars == <<sn_audio_lock, sn_store_lock, sn_pc, sn_id, sn_last_id, sn_access, sn_cell>>

tickVars == <<tk_pipeline, tk_pc, tk_i, tk_counter, tk_frame, tk_log>>

streamsVars == <<sm_queue, sm_streams, sm_counter, sm_pc, sm_reply, sm_tail, dv_pc, dv_id, dv_refs, dv_sent>>

binsVars == <<bn_store, bn_pc, bn_spectrum, bn_call, bn_index>>

averageVars == <<av_access, av_cell, av_factor, av_stored, av_pc, av_current, av_previous, av_calls, av_applied>>

counterVars == <<fc_counter, fc_modulo, fc_pc, fc_value, fc_returns>>

pairVars == <<pv_inputs, pv_caps, pv_taken, pv_used, pv_validated, pv_pc, pv_result>>

runsVars == <<rn_definitions, rn_platform, rn_pc, rn_first, rn_second>>

vars == <<buildVars, idVars, storeVars, colorVars, numberVars, refVars,
    audioVars,
    nodeVars,
    factoryVars,
    constructVars,
    equalizerVars,
    mergeVars,
    spectrumVars,
    tickVars,
    streamsVars,
    binsVars,
    averageVars,
    counterVars,
    pairVars,
    runsVars>>

\* what the actions of one component leave alone
notBuild == <<idVars, storeVars, colorVars, numberVars, refVars,
    audioVars,
    nodeVars,
    factoryVars,
    constructVars,
    equalizerVars,
    mergeVars,
    spectrumVars,
    tickVars,
    streamsVars,
    binsVars,
    averageVars,
    counterVars,
    pairVars,
    runsVars>>
notId == <<buildVars, storeVars, colorVars, numberVars, refVars,
    audioVars,
    nodeVars,
    factoryVars,
    constructVars,
    equalizerVars,
    mergeVars,
    spectrumVars,
    tickVars,
    streamsVars,
    binsVars,
    averageVars,
    counterVars,
    pairVars,
    runsVars>>
notStore == <<buildVars, idVars, colorVars, numberVars, refVars,
    audioVars,
    nodeVars,
    factoryVars,
    constructVars,
    equalizerVars,
    mergeVars,
    spectrumVars,
    tickVars,
    streamsVars,
    binsVars,
    averageVars,
    counterVars,
    pairVars,
    runsVars>>
notColor == <<buildVars, idVars, storeVars, numberVars, refVars,
    audioVars,
    nodeVars,
    factoryVars,
    constructVars,
    equalizerVars,
    mergeVars,
    spectrumVars,
    tickVars,
    streamsVars,
    binsVars,
    averageVars,
    counterVars,
    pairVars,
    runsVars>>
notNumber == <<buildVars, idVars, storeVars, colorVars, refVars,
    audioVars,
    nodeVars,
    factoryVars,
    constructVars,
    equalizerVars,
    mergeVars,
    spectrumVars,
    tickVars,
    streamsVars,
    binsVars,
    averageVars,
    counterVars,
    pairVars,
    runsVars>>
notRef == <<buildVars, idVars, storeVars, colorVars, numberVars,
    audioVars,
    nodeVars,
    factoryVars,
    constructVars,
    equalizerVars,
    mergeVars,
    spectrumVars,
    tickVars,
    streamsVars,
    binsVars,
    averageVars,
    counterVars,
    pairVars,
    runsVars>>
notAudio == <<buildVars, idVars, storeVars, colorVars, refVars,
    avg_alpha, avg_average, nm_seen, nm_pulls,
    nodeVars,
    factoryVars,
    constructVars,
    equalizerVars,
    mergeVars,
    spectrumVars,
    tickVars,
    streamsVars,
    binsVars,
    averageVars,
    counterVars,
    pairVars,
    runsVars>>
notNode == <<buildVars, idVars, storeVars, colorVars, numberVars, refVars, audioVars,
    factoryVars,
    constructVars,
    equalizerVars,
    mergeVars,
    spectrumVars,
    tickVars,
    streamsVars,
    binsVars,
    averageVars,
    counterVars,
    pairVars,
    runsVars>>
notFactory == <<buildVars, idVars, storeVars, colorVars, numberVars, refVars, audioVars, nodeVars,
    constructVars,
    equalizerVars,
    mergeVars,
    spectrumVars,
    tickVars,
    streamsVars,
    binsVars,
    averageVars,
    counterVars,
    pairVars,
    runsVars>>
notConstruct == <<buildVars, idVars, storeVars, colorVars, numberVars, refVars, audioVars, nodeVars, factoryVars,
    equalizerVars,
    mergeVars,
    spectrumVars,
    tickVars,
    streamsVars,
    binsVars,
    averageVars,
    counterVars,
    pairVars,
    runsVars>>
notEqualizer == <<buildVars, idVars, storeVars, colorVars, numberVars, refVars, audioVars, nodeVars, factoryVars, constructVars,
    mergeVars,
    spectrumVars,
    tickVars,
    streamsVars,
    binsVars,
    averageVars,
    counterVars,
    pairVars,
    runsVars>>
notMerge == <<buildVars, idVars, storeVars, colorVars, numberVars, refVars, audioVars, nodeVars, factoryVars, constructVars, equalizerVars,
    spectrumVars,
    tickVars,
    streamsVars,
    binsVars,
    averageVars,
    counterVars,
    pairVars,
    runsVars>>
notSpectrum == <<buildVars, idVars, storeVars, colorVars, numberVars, refVars, audioVars, nodeVars, factoryVars, constructVars, equalizerVars, mergeVars,
    tickVars,
    streamsVars,
    binsVars,
    averageVars,
    counterVars,
    pairVars,
    runsVars>>
notTick == <<buildVars, idVars, storeVars, colorVars, numberVars, refVars, audioVars, nodeVars, factoryVars, constructVars, equalizerVars, mergeVars, spectrumVars,
    streamsVars,
    binsVars,
    averageVars,
    counterVars,
    pairVars,
    runsVars>>
notStreams == <<buildVars, idVars, storeVars, colorVars, numberVars, refVars, audioVars, nodeVars, factoryVars, constructVars, equalizerVars, mergeVars, spectrumVars, tickVars,
    binsVars,
    averageVars,
    counterVars,
    pairVars,
    runsVars>>
notBins == <<buildVars, idVars, storeVars, colorVars, numberVars, refVars, audioVars, nodeVars, factoryVars, constructVars, equalizerVars, mergeVars, spectrumVars, tickVars, streamsVars,
    averageVars,
    counterVars,
    pairVars,
    runsVars>>
notAverage == <<buildVars, idVars, storeVars, colorVars, numberVars, refVars, audioVars, nodeVars, factoryVars, constructVars, equalizerVars, mergeVars, spectrumVars, tickVars, streamsVars, binsVars,
    counterVars,
    pairVars,
    runsVars>>
notCounter == <<buildVars, idVars, storeVars, colorVars, numberVars, refVars, audioVars, nodeVars, factoryVars, constructVars, equalizerVars, mergeVars, spectrumVars, tickVars, streamsVars, binsVars, averageVars,
    pairVars,
    runsVars>>
notPair == <<buildVars, idVars, storeVars, colorVars, numberVars, refVars, audioVars, nodeVars, factoryVars, constructVars, equalizerVars, mergeVars, spectrumVars, tickVars, streamsVars, binsVars, averageVars, counterVars,
    runsVars>>
notRuns == <<buildVars, idVars, storeVars, colorVars, numberVars, refVars, audioVars, nodeVars, factoryVars, constructVars, equalizerVars, mergeVars, spectrumVars, tickVars, streamsVars, binsVars, averageVars, counterVars, pairVars>>

----------------------------------------------------------------------------
(* Bounds of the builder model *)

\* the names a definition set may declare and refer to
Names == {"a", "b", "c"}

\* the longest `inputs` list of a definition
MaxInputs == 1

\* the `type` strings the definitions are drawn from; "bogus" is registered
\* by no constructor
ConfigTypes == {"random-color", "merge", "rtsp", "bogus"}

----------------------------------------------------------------------------
(* NodeFactory::default() and the built-in constructors *)

Capabilities == {"ProvideAudioData", "ProvideVideoFrame", "ProvideSpectrum",
                 "ProvideNumber"}

\* the type names NodeFactory::default() registers
FactoryTypes == {"device", "random-color", "rtsp", "average", "circle",
                 "equalizer", "loudness", "merge", "spectrum"}

\* NodeFactory::get(..).is_some()
FactoryHas(node_type) == node_type \in FactoryTypes

\* ConstructNode::is_sink: the trait's default is false, rtsp overrides it
ConstructorIsSink(node_type) == node_type = "rtsp"

\* Node::has_capability of a node of the given kind
HasCapability(node_type, cap) ==
    CASE node_type = "device"       -> cap = "ProvideAudioData"
      [] node_type = "random-color" -> cap = "ProvideVideoFrame"
      [] node_type = "average"      -> cap = "ProvideNumber"
      [] node_type = "circle"       -> cap = "ProvideVideoFrame"
      [] node_type = "equalizer"    -> cap = "ProvideVideoFrame"
      [] node_type = "loudness"     -> cap = "ProvideNumber"
      [] node_type = "merge"        -> cap = "ProvideVideoFrame"
      [] node_type = "spectrum"     -> cap = "ProvideSpectrum"
      [] OTHER                      -> FALSE

\* validate_inputs(inputs, ()): no input at all
ValidateNone(input_types) == Len(input_types) = 0

\* a validation of one input that looks at the number of inputs only
ValidateCountOnly(input_types, cap) == Len(input_types) = 1

\* validate_inputs(inputs, cap): exactly one input, and it has the capability
ValidateOne(input_types, cap) ==
    /\ Len(input_types) = 1
    /\ HasCapability(input_types[1], cap)

\* Merge::new: at least one input, and every input provides video frames
ValidateMerge(input_types) ==
    /\ Len(input_types) > 0
    /\ \A i \in 1..Len(input_types) :
          HasCapability(input_types[i], "ProvideVideoFrame")

\* the input validation each constructor starts with; input_types are the
\* kinds of the nodes behind the resolved input handles
InputsValid(node_type, input_types) ==
    CASE node_type = "device"       -> ValidateNone(input_types)
      [] node_type = "random-color" -> ValidateNone(input_types)
      [] node_type = "rtsp"         -> ValidateOne(input_types, "ProvideVideoFrame")
      [] node_type = "average"      -> ValidateOne(input_types, "ProvideNumber")
      [] node_type = "circle"       -> ValidateOne(input_types, "ProvideNumber")
      [] node_type = "equalizer"    -> ValidateOne(input_types, "ProvideSpectrum")
      [] node_type = "loudness"     -> ValidateOne(input_types, "ProvideAudioData")
      [] node_type = "merge"        -> ValidateMerge(input_types)
      [] node_type = "spectrum"     -> ValidateOne(input_types, "ProvideAudioData")
      [] OTHER                      -> FALSE

\* the constructors that talk to a platform collaborator after validating
\* their inputs (the capture device, the RTSP server) and so may fail with
\* Error::System
UsesPlatform(node_type) == node_type \in {"device", "rtsp"}

\* NodeFactory::construct with an empty option mapping: the error kind, or "Ok"
Construct(node_type, input_types, platform_ok) ==
    IF ~FactoryHas(node_type) THEN "UnknownNode"
    ELSE IF ~InputsValid(node_type, input_types) THEN "InvalidInputs"
    ELSE IF UsesPlatform(node_type) /\ ~platform_ok THEN "System"
    ELSE "Ok"

\* the option blocks a definition may carry, by what from_yaml makes of them:
\* no block (unwrap_or_default gives the empty mapping) or a block with a
\* null value
OptionBlocks == {"absent", "null-value"}

\* options::from_yaml succeeds
FromYamlOk(options) == options # "null-value"

----------------------------------------------------------------------------
(* Helpers over sequences and maps *)

Range(s) == {s[i] : i \in 1..Len(s)}

EmptyMap == [n \in {} |-> 0]

\* all orders in which the elements of S can be listed
Perms(S) ==
    {s \in [1..Cardinality(S) -> S] :
        \A i, j \in 1..Cardinality(S) : i # j => s[i] # s[j]}

Pos(s, x) == CHOOSE i \in 1..Len(s) : s[i] = x

\* the elements of s that satisfy keep, in the order of s
RECURSIVE FilterSeq(_, _)
FilterSeq(s, keep) ==
    IF s = <<>> THEN <<>>
    ELSE IF Head(s) \in keep THEN <<Head(s)>> \o FilterSeq(Tail(s), keep)
    ELSE FilterSeq(Tail(s), keep)

----------------------------------------------------------------------------
(* PipelineConfig::pipeline *)

InputLists == UNION {[1..k -> Names] : k \in 0..MaxInputs}

Definitions == [node_type : ConfigTypes, inputs : InputLists]

Running == [kind |-> "running", error |-> "", detail |-> "", handles |-> <<>>]
Err(error, detail) ==
    [kind |-> "err", error |-> error, detail |-> detail, handles |-> <<>>]
Panic(detail) ==
    [kind |-> "panic", error |-> "", detail |-> detail, handles |-> <<>>]
Ok(handles) == [kind |-> "ok", error |-> "", detail |-> "", handles |-> handles]

\* the names whose type the factory does not know
UnknownTyped(p) == {n \in DOMAIN p : ~FactoryHas(p[n].node_type)}

\* the names whose constructor is a sink
SinkTyped(p) == {n \in DOMAIN p : ConstructorIsSink(p[n].node_type)}

\* a first loop that pushes every name, sink or not
CollectEveryName(p, order) == order

\* load.rs:100-102: what the first loop pushes for the names it visits in
\* the order `order`
CollectSinks(p, order) == FilterSeq(order, SinkTyped(p))

\* a sink check that never rejects
NoSinkIgnored(sink_names) == FALSE

\* load.rs:105: sinks.is_empty()
NoSink(sink_names) == sink_names = <<>>

\* edges added the wrong way round, node -> input
EdgesReversed(p) ==
    {e \in (DOMAIN p) \X Names :
        \E i \in 1..Len(p[e[1]].inputs) : p[e[1]].inputs[i] = e[2]}

\* load.rs:118-125: one edge input -> node for every declared input
Edges(p) ==
    {e \in Names \X (DOMAIN p) :
        \E i \in 1..Len(p[e[2]].inputs) : p[e[2]].inputs[i] = e[1]}

\* load.rs:122: vertices[input] panics for a name that is no key of the map
UndeclaredInputs(p) ==
    {n \in DOMAIN p : \E i \in 1..Len(p[n].inputs) : p[n].inputs[i] \notin DOMAIN p}

\* petgraph::algo::toposort: the orders of all vertices in which every edge
\* points forward; there is none exactly when the graph has a cycle (a
\* self-loop is one)
TopoOrders(vertices, edges) ==
    {s \in Perms(vertices) : \A e \in edges : Pos(s, e[1]) < Pos(s, e[2])}

BuildIdle ==
    /\ definitions = EmptyMap
    /\ pipeline = EmptyMap
    /\ pc = "off"
    /\ sinks = <<>>
    /\ graph = {}
    /\ sorted = <<>>
    /\ registry = EmptyMap
    /\ constructed = <<>>
    /\ outcome = Running

BuildInit ==
    /\ \E keys \in SUBSET Names : definitions \in [keys -> Definitions]
    /\ pipeline = definitions
    /\ pc = "types"
    /\ sinks = <<>>
    /\ graph = {}
    /\ sorted = <<>>
    /\ registry = EmptyMap
    /\ constructed = <<>>
    /\ outcome = Running

Return(result) ==
    /\ outcome' = result
    /\ pc' = "done"

\* load.rs:93-109: resolve every type, record the sinks, require one.  The
\* map is visited in its hash order, which is any order of the keys.
CheckTypes ==
    /\ pc = "types"
    /\ \E order \in Perms(DOMAIN pipeline) :
          LET unknown == FilterSeq(order, UnknownTyped(pipeline))
              found == CollectSinks(pipeline, order)
          IN  IF unknown # <<>>
              THEN /\ Return(Err("UnknownNode", pipeline[Head(unknown)].node_type))
                   /\ UNCHANGED sinks
              ELSE IF NoSink(found)
              THEN /\ Return(Err("InvalidPipeline", "SourceProcessorsSinkOrder"))
                   /\ UNCHANGED sinks
              ELSE /\ sinks' = found
                   /\ pc' = "graph"
                   /\ UNCHANGED outcome
    /\ UNCHANGED <<definitions, pipeline, graph, sorted, registry, constructed>>
    /\ UNCHANGED notBuild

\* load.rs:111-125: the vertices and the edges
BuildGraph ==
    /\ pc = "graph"
    /\ IF UndeclaredInputs(pipeline) # {}
       THEN /\ Return(Panic("vertices[input]"))
            /\ UNCHANGED graph
       ELSE /\ graph' = Edges(pipeline)
            /\ pc' = "toposort"
            /\ UNCHANGED outcome
    /\ UNCHANGED <<definitions, pipeline, sinks, sorted, registry, constructed>>
    /\ UNCHANGED notBuild

\* load.rs:127-131: the sort, then video_config(), whose builder asserts the
\* ranges of width, height and fps
Toposort ==
    /\ pc = "toposort"
    /\ IF TopoOrders(DOMAIN pipeline, graph) = {}
       THEN /\ Return(Err("InvalidPipeline", "Cycle"))
            /\ UNCHANGED sorted
       ELSE \E order \in TopoOrders(DOMAIN pipeline, graph), video_valid \in BOOLEAN :
               IF ~video_valid
               THEN /\ Return(Panic("video_config"))
                    /\ UNCHANGED sorted
               ELSE /\ sorted' = order
                    /\ pc' = "walk"
                    /\ UNCHANGED outcome
    /\ UNCHANGED <<definitions, pipeline, sinks, graph, registry, constructed>>
    /\ UNCHANGED notBuild

\* a walk that registers whatever the constructor returned
NeverPropagates(result) == FALSE

\* load.rs:146-148: the ? after from_yaml and after factory.construct
\* returns an Err from pipeline() at once
Propagates(result) == result # "Ok"

\* the kinds of the nodes behind the registered handles of the given names
InputTypes(input_names) ==
    [i \in 1..Len(input_names) |-> constructed[registry[input_names[i]]].node_type]

\* load.rs:133-151: one iteration of the walk
WalkStep ==
    /\ pc = "walk"
    /\ sorted # <<>>
    /\ LET node_name == Head(sorted)
           definition == pipeline[node_name]
       IN  /\ pipeline' = [n \in DOMAIN pipeline \ {node_name} |-> pipeline[n]]
           /\ sorted' = Tail(sorted)
           /\ IF \E i \in 1..Len(definition.inputs) :
                     definition.inputs[i] \notin DOMAIN registry
              THEN /\ Return(Err("InvalidPipeline", "UnknownInput"))
                   /\ UNCHANGED <<registry, constructed>>
              ELSE \E options \in OptionBlocks, platform_ok \in BOOLEAN :
                     IF ~FromYamlOk(options)
                     THEN /\ Return(Err("InvalidOptions", ""))
                          /\ UNCHANGED <<registry, constructed>>
                     ELSE LET result == Construct(definition.node_type,
                                                  InputTypes(definition.inputs),
                                                  platform_ok)
                              handle == Len(constructed) + 1
                              call == [name |-> node_name,
                                       node_type |-> definition.node_type,
                                       inputs |-> [i \in 1..Len(definition.inputs) |->
                                                      registry[definition.inputs[i]]],
                                       result |-> result]
                          IN  /\ constructed' = Append(constructed, call)
                              /\ IF ~Propagates(result)
                                 THEN /\ registry' =
                                            [n \in DOMAIN registry \cup {node_name} |->
                                                IF n = node_name THEN handle
                                                ELSE registry[n]]
                                      /\ UNCHANGED <<pc, outcome>>
                                 ELSE /\ Return(Err(result, ""))
                                      /\ UNCHANGED registry
    /\ UNCHANGED <<definitions, sinks, graph>>
    /\ UNCHANGED notBuild

\* sink handles numbered by their place in the sink list, not looked up
SinkHandlesByPosition(sink_names, reg) == [i \in 1..Len(sink_names) |-> i]

\* load.rs:153-158: the handles of the sinks, in the order they were recorded
SinkHandles(sink_names, reg) == [i \in 1..Len(sink_names) |-> reg[sink_names[i]]]

Collect ==
    /\ pc = "walk"
    /\ sorted = <<>>
    /\ IF \E i \in 1..Len(sinks) : sinks[i] \notin DOMAIN registry
       THEN Return(Panic("registry.get(sink_name).unwrap()"))
       ELSE Return(Ok(SinkHandles(sinks, registry)))
    /\ UNCHANGED <<definitions, pipeline, sinks, graph, sorted, registry, constructed>>
    /\ UNCHANGED notBuild

----------------------------------------------------------------------------
(* Properties of PipelineConfig::pipeline *)

\* the declared inputs of a definition, as a set
InputsOf(p, n) == Range(p[n].inputs)

\* there is a path of 1..k declared-input edges from u to v
RECURSIVE PathFrom(_, _, _, _)
PathFrom(p, u, v, k) ==
    /\ k > 0
    /\ \/ u \in InputsOf(p, v)
       \/ \E w \in DOMAIN p : u \in InputsOf(p, w) /\ PathFrom(p, w, v, k - 1)

\* the declared inputs form a cycle (a node naming itself is one)
InputCycle(p) == \E n \in DOMAIN p : PathFrom(p, n, n, Cardinality(DOMAIN p))

\* every type is known to the factory and some definition is a sink
PassesTypeAndSinkChecks(p) == UnknownTyped(p) = {} /\ SinkTyped(p) # {}

\* some definition names an input that no definition declares
NamesUndeclaredInput(p) == \E n \in DOMAIN p : ~(InputsOf(p, n) \subseteq DOMAIN p)

\* C1: whenever a constructor is invoked, every declared input of its node
\* was constructed successfully by an earlier invocation and is registered,
\* and no registry lookup of the walk misses (pipeline() never returns
\* UnknownInput).
C1_InputsConstructedFirst ==
    /\ \A h \in 1..Len(constructed) :
          \A input \in InputsOf(definitions, constructed[h].name) :
             \E g \in 1..(h - 1) :
                /\ constructed[g].name = input
                /\ constructed[g].result = "Ok"
                /\ input \in DOMAIN registry
                /\ registry[input] = g
    /\ ~(outcome.kind = "err" /\ outcome.detail = "UnknownInput")

\* a chain of three nodes has been constructed, each after its input
C1_Witness ==
    /\ Len(constructed) = 3
    /\ \A h \in 1..3 : constructed[h].result = "Ok"
    /\ constructed[2].inputs = <<1>>
    /\ constructed[3].inputs = <<2>>
    /\ ~InputCycle(definitions)
    /\ PassesTypeAndSinkChecks(definitions)

\* C2: a definition set with known types, a sink and a cycle among its
\* inputs makes pipeline() return Cycle, with no constructor invoked.
C2_CycleReported ==
    (/\ pc = "done"
     /\ PassesTypeAndSinkChecks(definitions)
     /\ InputCycle(definitions))
    => /\ outcome = Err("InvalidPipeline", "Cycle")
       /\ constructed = <<>>

\* C2 holds of every such definition set whose input names are all
\* declared: the panic of load.rs:122 is the only way it fails.
C2_CycleReportedWhenInputsDeclared ==
    (/\ pc = "done"
     /\ PassesTypeAndSinkChecks(definitions)
     /\ InputCycle(definitions)
     /\ ~NamesUndeclaredInput(definitions))
    => /\ outcome = Err("InvalidPipeline", "Cycle")
       /\ constructed = <<>>

\* C3 as stated: a definition set without a sink-typed node, whatever else
\* it holds, fails with SourceProcessorsSinkOrder.
C3_NoSinkAlwaysReported ==
    (pc = "done" /\ SinkTyped(definitions) = {})
    => outcome = Err("InvalidPipeline", "SourceProcessorsSinkOrder")

\* C3, amended: a definition set whose types are all known and that has no
\* sink-typed node fails with SourceProcessorsSinkOrder before any
\* constructor is invoked; one with an unknown type fails with UnknownNode,
\* naming one of its unknown types.
C3_NoSinkReportedWhenTypesKnown ==
    /\ (pc = "done" /\ SinkTyped(definitions) = {} /\ UnknownTyped(definitions) = {})
       => /\ outcome = Err("InvalidPipeline", "SourceProcessorsSinkOrder")
          /\ constructed = <<>>
    /\ (pc = "done" /\ UnknownTyped(definitions) # {})
       => /\ outcome.kind = "err"
          /\ outcome.error = "UnknownNode"
          /\ \E n \in UnknownTyped(definitions) :
                outcome.detail = definitions[n].node_type

\* three sources and no sink were rejected
C3_Witness ==
    /\ pc = "done"
    /\ DOMAIN definitions = Names
    /\ SinkTyped(definitions) = {}
    /\ UnknownTyped(definitions) = {}
    /\ outcome.detail = "SourceProcessorsSinkOrder"

\* C4, on the definition sets that pass the type and sink checks (no earlier
\* error can pre-empt it there): an input name that no definition declares
\* makes pipeline() return the error value UnknownInput.
C4_UnknownInputReported ==
    (/\ pc = "done"
     /\ PassesTypeAndSinkChecks(definitions)
     /\ NamesUndeclaredInput(definitions))
    => outcome = Err("InvalidPipeline", "UnknownInput")

\* what the code does on those sets instead: it terminates fatally at the
\* index expression of load.rs:122
C4_UndeclaredInputPanics ==
    (/\ pc = "done"
     /\ PassesTypeAndSinkChecks(definitions)
     /\ NamesUndeclaredInput(definitions))
    => outcome = Panic("vertices[input]")

\* C5: on success the returned handles are, without repetition, exactly the
\* handles registered under the sink-typed names, each of a sink node.
C5_OneHandlePerSink ==
    outcome.kind = "ok" =>
        LET handles == outcome.handles
            sink_names == SinkTyped(definitions)
        IN  /\ Len(handles) = Cardinality(sink_names)
            /\ \A i, j \in 1..Len(handles) : i # j => handles[i] # handles[j]
            /\ Range(handles) = {registry[n] : n \in sink_names}
            /\ \A i \in 1..Len(handles) :
                  /\ constructed[handles[i]].name \in sink_names
                  /\ constructed[handles[i]].result = "Ok"
                  /\ ConstructorIsSink(constructed[handles[i]].node_type)
            /\ Cardinality(sink_names) = 1 => Len(handles) = 1

\* a build with two sinks on one source succeeded
C5_Witness ==
    /\ outcome.kind = "ok"
    /\ Len(outcome.handles) = 2
    /\ Len(constructed) = 3

\* the handles some owner still holds: the registry while pipeline() runs
\* (it is a local of pipeline(), dropped on every way out), the returned
\* vector afterwards
Held ==
    IF pc = "done" THEN Range(outcome.handles)
    ELSE {registry[n] : n \in DOMAIN registry}

\* the nodes a node keeps alive: itself and, through the NodeRefs it
\* stores, its inputs and what they keep alive
RECURSIVE KeptBy(_)
KeptBy(handle) ==
    {handle} \cup UNION {KeptBy(constructed[handle].inputs[i]) :
                            i \in 1..Len(constructed[handle].inputs)}

\* the constructed nodes whose reference count is not zero
Live == UNION {KeptBy(handle) : handle \in Held}

WalkErrors == {"InvalidOptions", "InvalidInputs", "System"}

\* C19: when from_yaml or a constructor fails during the walk, pipeline()
\* returns that error at once: the failing constructor call is the last
\* one made, no sink handle is returned, and no constructed node stays
\* referenced.
C19_FirstErrorReturnedNodesDropped ==
    /\ \A n \in 1..Len(constructed) :
          constructed[n].result # "Ok" =>
              /\ n = Len(constructed)
              /\ outcome = Err(constructed[n].result, "")
              /\ pc = "done"
    /\ (outcome.kind = "err" /\ outcome.error \in WalkErrors) =>
          /\ outcome.handles = <<>>
          /\ Live = {}
          /\ \A n \in 1..Len(constructed) : constructed[n].name \notin Range(sorted)

\* a second constructor failed with System after a first node had been
\* constructed and registered, with a third definition still waiting
C19_Witness ==
    /\ outcome = Err("System", "")
    /\ Len(constructed) = 2
    /\ constructed[1].result = "Ok"
    /\ constructed[2].inputs = <<1>>
    /\ sorted # <<>>
    /\ registry # EmptyMap

\* the constructor calls made for the definition of the given name
CallsFor(name) == {h \in 1..Len(constructed) : constructed[h].name = name}

BuildNext == CheckTypes \/ BuildGraph \/ Toposort \/ WalkStep \/ Collect

----------------------------------------------------------------------------
(* FrameId::new: the process-wide frame identity generator (util.rs) *)

\* the width of usize in the model, in bits
UsizeBits == 2

\* the number of calls of FrameId::new the model follows
MaxCalls == 5

RECURSIVE Pow2(_)
Pow2(n) == IF n = 0 THEN 1 ELSE 2 * Pow2(n - 1)

UsizeModulus == Pow2(UsizeBits)

\* usize::MAX
UsizeMax == UsizeModulus - 1

\* the threads that mint frame ids: the need_data callbacks of the sinks
Callers == {"sink1", "sink2"}

\* a fetch_add that hands out the value after the addition
AddFetch(counter) == (counter + 1) % UsizeModulus

\* util.rs:66-68: AtomicUsize::fetch_add returns the value before the addition
FetchAdd(counter) == counter

\* an addition that leaves the counter where it was
NoInc(counter) == counter

\* util.rs:67: the addition wraps at the word size
WrappingInc(counter) == (counter + 1) % UsizeModulus

\* util.rs:64
FrameIdCounterStart == 0

IdIdle ==
    /\ frame_id_counter = FrameIdCounterStart
    /\ id_pc = [c \in Callers |-> "idle"]
    /\ id_got = [c \in Callers |-> 0]
    /\ id_after = [c \in Callers |-> 0]
    /\ minted = <<>>
    /\ returned = <<>>

IdInit == IdIdle

CallsStarted ==
    Len(minted) + Cardinality({c \in Callers : id_pc[c] = "called"})

\* a caller enters FrameId::new
IdCall(c) ==
    /\ id_pc[c] = "idle"
    /\ CallsStarted < MaxCalls
    /\ id_pc' = [id_pc EXCEPT ![c] = "called"]
    /\ id_after' = [id_after EXCEPT ![c] = Len(returned)]
    /\ UNCHANGED <<frame_id_counter, id_got, minted, returned>>
    /\ UNCHANGED notId

\* util.rs:67: the one atomic read-modify-write of the counter
IdFetchAdd(c) ==
    /\ id_pc[c] = "called"
    /\ id_got' = [id_got EXCEPT ![c] = FetchAdd(frame_id_counter)]
    /\ frame_id_counter' = WrappingInc(frame_id_counter)
    /\ minted' = Append(minted, FetchAdd(frame_id_counter))
    /\ id_pc' = [id_pc EXCEPT ![c] = "fetched"]
    /\ UNCHANGED <<id_after, returned>>
    /\ UNCHANGED notId

\* util.rs:32-34: FrameId::new returns Self(frame_id::get())
IdReturn(c) ==
    /\ id_pc[c] = "fetched"
    /\ returned' = Append(returned, [caller |-> c, id |-> id_got[c],
                                     after |-> id_after[c]])
    /\ id_pc' = [id_pc EXCEPT ![c] = "idle"]
    /\ UNCHANGED <<frame_id_counter, id_got, id_after, minted>>
    /\ UNCHANGED notId

IdNext == \E c \in Callers : IdCall(c) \/ IdFetchAdd(c) \/ IdReturn(c)

\* C10 as stated: FrameId::new never returns the identifier zero.
C10_NeverZero == \A n \in 1..Len(returned) : returned[n].id # 0

\* C10, amended: the n-th fetch_add of the counter hands out (n - 1) modulo
\* the word size, so the very first FrameId is zero; the value reserved for
\* "no frame computed yet", usize::MAX (the default of LastFrameId), is not
\* handed out by any of the first usize::MAX calls.
C10_FirstIsZeroMaxReserved ==
    /\ \A n \in 1..Len(minted) :
          /\ minted[n] = (n - 1) % UsizeModulus
          /\ n = 1 => minted[n] = 0
          /\ n <= UsizeMax => minted[n] # UsizeMax
    /\ \A n \in 1..Len(returned) : \E k \in 1..Len(minted) : returned[n].id = minted[k]

\* the counter has gone round: usize::MAX was handed out by call number
\* usize::MAX + 1, and a later call got zero again
C10_Witness ==
    /\ Len(minted) > UsizeModulus
    /\ minted[UsizeModulus] = UsizeMax
    /\ minted[UsizeModulus + 1] = 0
    /\ Len(returned) > UsizeModulus

\* the counter has not gone round yet
NotWrapped == Len(minted) <= UsizeModulus

\* C11: until the counter wraps, the ids that concurrent calls of
\* FrameId::new return are pairwise distinct, and a call that began after
\* another call had returned gets a strictly larger id than that call.
C11_DistinctAndIncreasing ==
    NotWrapped =>
        /\ \A n, k \in 1..Len(returned) :
              n # k => returned[n].id # returned[k].id
        /\ \A n \in 1..Len(returned) :
              \A k \in 1..returned[n].after : returned[k].id < returned[n].id

\* two calls overlapped and returned in the opposite order of their ids,
\* and a third call began after both had returned
C11_Witness ==
    /\ NotWrapped
    /\ Len(returned) = 3
    /\ returned[1].caller # returned[2].caller
    /\ returned[2].after = 0
    /\ returned[2].id < returned[1].id
    /\ returned[3].after = 2

----------------------------------------------------------------------------
(* LastFrameId and SpectrumStore::compute (util.rs, util/spectrum.rs) *)

\* the number of pulls of one node the model follows
MaxPulls == 3

\* the threads that pull the store's node
Pullers == {"p1", "p2"}

\* every value a FrameId can hold
FrameIds == 0..UsizeMax

\* the contents a sample window of the right length can have
Windows == {"x", "y"}

\* a comparison that always reports a new frame
StoreAlways(last, id) == TRUE

\* util.rs:42-43: store_if_not_eq stores, and returns true, when the loaded
\* value differs from the id
StoreIfNotEq(last, id) == last # id

\* util.rs:57: LastFrameId::default()
LastFrameIdDefault == UsizeMax

\* the ids the store's callers pass: two ordinary ids and the one that
\* equals the initial LastFrameId
StoreIds == {0, 1, LastFrameIdDefault}

\* util/spectrum.rs:174-188: Stft::compute, the transform of the window
Fft(data) == <<"fft", data>>

\* util/spectrum.rs:150: make_output_vec, the zeroed output buffer
ZeroOutput == <<"fft", "none">>

\* a mutex anybody can take at any time
LockAlwaysFree(lock) == TRUE

\* util/spectrum.rs:52: the Mutex can be taken when nobody holds it
LockFree(lock) == lock = "none"

StoreIdle ==
    /\ store_lock = "none"
    /\ last_id = LastFrameIdDefault
    /\ stft_output = ZeroOutput
    /\ computations = 0
    /\ st_pc = [t \in Pullers |-> "idle"]
    /\ st_id = [t \in Pullers |-> 0]
    /\ st_data = [t \in Pullers |-> "x"]
    /\ st_last = [t \in Pullers |-> 0]
    /\ st_stored = [t \in Pullers |-> FALSE]
    /\ pull_log = <<>>

\* util/spectrum.rs:43-48: SpectrumStore::new_inner
StoreInit == StoreIdle

PullsStarted ==
    Len(pull_log) +
    Cardinality({t \in Pullers : st_pc[t] \in {"lock", "load", "test", "spectrum"}})

\* a caller enters compute(id, data, sample_rate)
StCall(t) ==
    /\ st_pc[t] = "idle"
    /\ PullsStarted < MaxPulls
    /\ \E id \in StoreIds, data \in Windows :
          /\ st_id' = [st_id EXCEPT ![t] = id]
          /\ st_data' = [st_data EXCEPT ![t] = data]
    /\ st_pc' = [st_pc EXCEPT ![t] = "lock"]
    /\ UNCHANGED <<store_lock, last_id, stft_output, computations, st_last,
                   st_stored, pull_log>>
    /\ UNCHANGED notStore

\* util/spectrum.rs:52: self.spectrum.lock()
StLock(t) ==
    /\ st_pc[t] = "lock"
    /\ LockFree(store_lock)
    /\ store_lock' = t
    /\ st_pc' = [st_pc EXCEPT ![t] = "load"]
    /\ UNCHANGED <<last_id, stft_output, computations, st_id, st_data, st_last,
                   st_stored, pull_log>>
    /\ UNCHANGED notStore

\* util.rs:42: the load of store_if_not_eq
StLoad(t) ==
    /\ st_pc[t] = "load"
    /\ st_last' = [st_last EXCEPT ![t] = last_id]
    /\ st_pc' = [st_pc EXCEPT ![t] = "test"]
    /\ UNCHANGED <<store_lock, last_id, stft_output, computations, st_id, st_data,
                   st_stored, pull_log>>
    /\ UNCHANGED notStore

\* util.rs:43-48: the comparison and the store of store_if_not_eq
StTestAndStore(t) ==
    /\ st_pc[t] = "test"
    /\ IF StoreIfNotEq(st_last[t], st_id[t])
       THEN /\ last_id' = st_id[t]
            /\ st_stored' = [st_stored EXCEPT ![t] = TRUE]
       ELSE /\ st_stored' = [st_stored EXCEPT ![t] = FALSE]
            /\ UNCHANGED last_id
    /\ st_pc' = [st_pc EXCEPT ![t] = "spectrum"]
    /\ UNCHANGED <<store_lock, stft_output, computations, st_id, st_data, st_last,
                   pull_log>>
    /\ UNCHANGED notStore

\* util/spectrum.rs:53-57: guard.compute(data) or guard.get()
StSpectrum(t) ==
    /\ st_pc[t] = "spectrum"
    /\ LET spectrum == IF st_stored[t] THEN Fft(st_data[t]) ELSE stft_output
       IN  /\ stft_output' = spectrum
           /\ pull_log' = Append(pull_log,
                                 [caller |-> t, id |-> st_id[t], data |-> st_data[t],
                                  computed |-> st_stored[t], result |-> spectrum])
    /\ computations' = IF st_stored[t] THEN computations + 1 ELSE computations
    /\ st_pc' = [st_pc EXCEPT ![t] = "return"]
    /\ UNCHANGED <<store_lock, last_id, st_id, st_data, st_last, st_stored>>
    /\ UNCHANGED notStore

\* util/spectrum.rs:59-74: the Spectrum is copied out and the guard dropped
StReturn(t) ==
    /\ st_pc[t] = "return"
    /\ store_lock' = IF store_lock = t THEN "none" ELSE store_lock
    /\ st_pc' = [st_pc EXCEPT ![t] = "idle"]
    /\ st_id' = [st_id EXCEPT ![t] = 0]
    /\ st_data' = [st_data EXCEPT ![t] = "x"]
    /\ st_last' = [st_last EXCEPT ![t] = 0]
    /\ st_stored' = [st_stored EXCEPT ![t] = FALSE]
    /\ UNCHANGED <<last_id, stft_output, computations, pull_log>>
    /\ UNCHANGED notStore

StoreNext ==
    \E t \in Pullers :
        \/ StCall(t) \/ StLock(t) \/ StLoad(t) \/ StTestAndStore(t)
        \/ StSpectrum(t) \/ StReturn(t)

\* the id of the pull before pull n; for the first pull, the initial
\* LastFrameId
IdBefore(n) == IF n = 1 THEN LastFrameIdDefault ELSE pull_log[n - 1].id

\* how many of the first n pulls ran the transform
RECURSIVE ComputedUpTo(_)
ComputedUpTo(n) ==
    IF n = 0 THEN 0
    ELSE ComputedUpTo(n - 1) + (IF pull_log[n].computed THEN 1 ELSE 0)

C8_SpectrumStoreAtomic ==
    \A t \in Pullers :
        /\ st_pc[t] \in {"load", "test", "spectrum", "return"} => store_lock = t
        /\ st_pc[t] = "test" => st_last[t] = last_id

----------------------------------------------------------------------------
(* RandomColor::provide_video_frame (sources/random_color.rs) *)

\* the largest FrameCounter modulo the model uses (update-every x fps / 1000)
MaxModulo == 2

\* the colors the random generator can draw; 0 is the cleared frame
Colors == {1, 2}

\* video.rs:96 and 131: VideoFrame::new and clear, every byte zero
ClearedFrame == 0

\* misc.rs:30-33: FrameCounter::new starts the counter at zero
FrameCounterStart == 0

\* the pulls of a RandomColor that has a single driver
MaxColorPulls == 5

\* a fetch_inc that stores the counter back one call late
CounterWrapsLate(value, modulo) == value = modulo

\* misc.rs:38: the test of fetch_inc that stores the counter back to zero
CounterWraps(value, modulo) == value + 1 = modulo

ColorIdle ==
    /\ rc_last_id = LastFrameIdDefault
    /\ rc_counter = FrameCounterStart
    /\ rc_modulo = 1
    /\ rc_cache = ClearedFrame
    /\ rc_newest = -1
    /\ rc_pc = [t \in Pullers |-> "idle"]
    /\ rc_id = [t \in Pullers |-> 0]
    /\ rc_last = [t \in Pullers |-> 0]
    /\ rc_stored = [t \in Pullers |-> FALSE]
    /\ rc_value = [t \in Pullers |-> 0]
    /\ rc_frame = [t \in Pullers |-> ClearedFrame]
    /\ rc_log = <<>>

\* random_color.rs:44-54: RandomColor::new
ColorInit ==
    /\ rc_last_id = LastFrameIdDefault
    /\ rc_counter = FrameCounterStart
    /\ rc_modulo \in 1..MaxModulo
    /\ rc_cache = ClearedFrame
    /\ rc_newest = -1
    /\ rc_pc = [t \in Pullers |-> "idle"]
    /\ rc_id = [t \in Pullers |-> 0]
    /\ rc_last = [t \in Pullers |-> 0]
    /\ rc_stored = [t \in Pullers |-> FALSE]
    /\ rc_value = [t \in Pullers |-> 0]
    /\ rc_frame = [t \in Pullers |-> ClearedFrame]
    /\ rc_log = <<>>

ColorPullsStarted ==
    Len(rc_log) + Cardinality({t \in Pullers : rc_pc[t] # "idle"})

\* the FrameIds a new pull can carry: the one of the newest tick (a second
\* path to the node within that tick, or another driver handed the same id)
\* or the next one the generator mints
NextPullIds ==
    {id \in FrameIds : id < UsizeMax /\ (id = rc_newest \/ id = rc_newest + 1)}

\* a caller enters provide_video_frame(id, frame); sinks pass a cleared frame
RcCallUpTo(t, most) ==
    /\ rc_pc[t] = "idle"
    /\ ColorPullsStarted < most
    /\ \E id \in NextPullIds :
          /\ rc_id' = [rc_id EXCEPT ![t] = id]
          /\ rc_newest' = id
    /\ rc_frame' = [rc_frame EXCEPT ![t] = ClearedFrame]
    /\ rc_pc' = [rc_pc EXCEPT ![t] = "load"]
    /\ UNCHANGED <<rc_last_id, rc_counter, rc_modulo, rc_cache, rc_last, rc_stored,
                   rc_value, rc_log>>
    /\ UNCHANGED notColor

\* util.rs:42: the load of store_if_not_eq
RcLoad(t) ==
    /\ rc_pc[t] = "load"
    /\ rc_last' = [rc_last EXCEPT ![t] = rc_last_id]
    /\ rc_pc' = [rc_pc EXCEPT ![t] = "test"]
    /\ UNCHANGED <<rc_last_id, rc_counter, rc_modulo, rc_cache, rc_newest, rc_id,
                   rc_stored, rc_value, rc_frame, rc_log>>
    /\ UNCHANGED notColor

\* util.rs:43-48 and the && of random_color.rs:90: the comparison and the
\* store; the frame counter is touched only when store_if_not_eq was true
RcTestAndStore(t) ==
    /\ rc_pc[t] = "test"
    /\ IF StoreIfNotEq(rc_last[t], rc_id[t])
       THEN /\ rc_last_id' = rc_id[t]
            /\ rc_stored' = [rc_stored EXCEPT ![t] = TRUE]
            /\ rc_pc' = [rc_pc EXCEPT ![t] = "fetch_add"]
       ELSE /\ rc_stored' = [rc_stored EXCEPT ![t] = FALSE]
            /\ rc_pc' = [rc_pc EXCEPT ![t] = "copy"]
            /\ UNCHANGED rc_last_id
    /\ UNCHANGED <<rc_counter, rc_modulo, rc_cache, rc_newest, rc_id, rc_last,
                   rc_value, rc_frame, rc_log>>
    /\ UNCHANGED notColor

\* misc.rs:36: the fetch_add of FrameCounter::fetch_inc
RcFetchAdd(t) ==
    /\ rc_pc[t] = "fetch_add"
    /\ rc_value' = [rc_value EXCEPT ![t] = rc_counter]
    /\ rc_counter' = rc_counter + 1
    /\ rc_pc' = [rc_pc EXCEPT ![t] = "wrap"]
    /\ UNCHANGED <<rc_last_id, rc_modulo, rc_cache, rc_newest, rc_id, rc_last,
                   rc_stored, rc_frame, rc_log>>
    /\ UNCHANGED notColor

\* misc.rs:38-42 and random_color.rs:90: the counter is stored back to zero
\* when value + 1 is the modulo; fetch_inc returns value, and the colors are
\* drawn when it is zero
RcWrap(t) ==
    /\ rc_pc[t] = "wrap"
    /\ rc_counter' = IF CounterWraps(rc_value[t], rc_modulo) THEN 0 ELSE rc_counter
    /\ rc_pc' = [rc_pc EXCEPT ![t] = IF rc_value[t] = 0 THEN "generate" ELSE "copy"]
    /\ UNCHANGED <<rc_last_id, rc_modulo, rc_cache, rc_newest, rc_id, rc_last,
                   rc_stored, rc_value, rc_frame, rc_log>>
    /\ UNCHANGED notColor

\* random_color.rs:92-120: new colors are drawn into the caller's frame
RcGenerate(t) ==
    /\ rc_pc[t] = "generate"
    /\ \E color \in Colors : rc_frame' = [rc_frame EXCEPT ![t] = color]
    /\ rc_pc' = [rc_pc EXCEPT ![t] = "write_cache"]
    /\ UNCHANGED <<rc_last_id, rc_counter, rc_modulo, rc_cache, rc_newest, rc_id,
                   rc_last, rc_stored, rc_value, rc_log>>
    /\ UNCHANGED notColor

\* random_color.rs:122: self.cache.lock().unwrap().copy_from(frame)
RcWriteCache(t) ==
    /\ rc_pc[t] = "write_cache"
    /\ rc_cache' = rc_frame[t]
    /\ rc_pc' = [rc_pc EXCEPT ![t] = "return"]
    /\ UNCHANGED <<rc_last_id, rc_counter, rc_modulo, rc_newest, rc_id, rc_last,
                   rc_stored, rc_value, rc_frame, rc_log>>
    /\ UNCHANGED notColor

\* random_color.rs:124: frame.copy_from(&self.cache.lock().unwrap())
RcCopy(t) ==
    /\ rc_pc[t] = "copy"
    /\ rc_frame' = [rc_frame EXCEPT ![t] = rc_cache]
    /\ rc_pc' = [rc_pc EXCEPT ![t] = "return"]
    /\ UNCHANGED <<rc_last_id, rc_counter, rc_modulo, rc_cache, rc_newest, rc_id,
                   rc_last, rc_stored, rc_value, rc_log>>
    /\ UNCHANGED notColor

\* provide_video_frame returns; the caller has its frame
RcReturn(t) ==
    /\ rc_pc[t] = "return"
    /\ rc_log' = Append(rc_log, [caller |-> t, id |-> rc_id[t],
                                 stored |-> rc_stored[t], value |-> rc_value[t],
                                 frame |-> rc_frame[t]])
    /\ rc_pc' = [rc_pc EXCEPT ![t] = "idle"]
    /\ rc_id' = [rc_id EXCEPT ![t] = 0]
    /\ rc_last' = [rc_last EXCEPT ![t] = 0]
    /\ rc_stored' = [rc_stored EXCEPT ![t] = FALSE]
    /\ rc_value' = [rc_value EXCEPT ![t] = 0]
    /\ rc_frame' = [rc_frame EXCEPT ![t] = ClearedFrame]
    /\ UNCHANGED <<rc_last_id, rc_counter, rc_modulo, rc_cache, rc_newest>>
    /\ UNCHANGED notColor

RcCall(t) == RcCallUpTo(t, MaxPulls)

ColorNext ==
    \E t \in Pullers :
        \/ RcCall(t) \/ RcLoad(t) \/ RcTestAndStore(t) \/ RcFetchAdd(t) \/ RcWrap(t)
        \/ RcGenerate(t) \/ RcWriteCache(t) \/ RcCopy(t) \/ RcReturn(t)

\* the node with a single driver: every pull is made by p1, one after another
DriverNext ==
    \/ RcCallUpTo("p1", MaxColorPulls) \/ RcLoad("p1") \/ RcTestAndStore("p1")
    \/ RcFetchAdd("p1") \/ RcWrap("p1") \/ RcGenerate("p1")
    \/ RcWriteCache("p1") \/ RcCopy("p1") \/ RcReturn("p1")

\* C8: of the callers that pull a RandomColor with one FrameId, exactly one
\* finds the id new (and advances the node), and all of them return the
\* same frame.
C8_OneComputationPerFrameId ==
    /\ \A i, j \in 1..Len(rc_log) :
          rc_log[i].id = rc_log[j].id => rc_log[i].frame = rc_log[j].frame
    /\ \A i, j \in 1..Len(rc_log) :
          (rc_log[i].id = rc_log[j].id /\ rc_log[i].stored /\ rc_log[j].stored)
             => i = j

\* what holds of RandomColor when the pulls do not overlap: C8's statement
\* is true of every state reached with at most one caller inside the node
C8_HoldsWithoutOverlap ==
    (rc_pc["p2"] = "idle" /\ \A n \in 1..Len(rc_log) : rc_log[n].caller = "p1")
        => C8_OneComputationPerFrameId

\* one driver: every pull so far was made by p1, and p2 is not inside the node
SingleDriver ==
    rc_pc["p2"] = "idle" /\ \A n \in 1..Len(rc_log) : rc_log[n].caller = "p1"

\* the n-th finished pull is the first of a run of pulls with one FrameId
StartsRun(n) == n = 1 \/ rc_log[n].id # rc_log[n - 1].id

\* the ticks (runs of pulls with one FrameId) begun by the first n pulls
TicksUpTo(n) == Cardinality({m \in 1..n : StartsRun(m)})

\* random_color.rs:90: the n-th finished pull drew new colors
Generated(n) == rc_log[n].stored /\ rc_log[n].value = 0

\* C40: with a single driver the frame counter advances once per run of
\* pulls with the same FrameId, new colors are drawn on the first tick and
\* on every modulo-th tick after it, and every other pull returns the frame
\* of the most recent drawing.
C40_DecimationPerTick ==
    SingleDriver =>
        /\ rc_pc["p1"] = "idle" => rc_counter = TicksUpTo(Len(rc_log)) % rc_modulo
        /\ \A n \in 1..Len(rc_log) :
              /\ rc_log[n].stored <=> StartsRun(n)
              /\ Generated(n) <=>
                    (StartsRun(n) /\ (TicksUpTo(n) - 1) % rc_modulo = 0)
              /\ Generated(n) => rc_log[n].frame \in Colors
              /\ ~Generated(n) =>
                    \E m \in 1..(n - 1) :
                        /\ Generated(m)
                        /\ \A k \in (m + 1)..n : ~Generated(k)
                        /\ rc_log[n].frame = rc_log[m].frame

\* one driver pulled the first tick twice, then the second tick, then the
\* third tick twice, of a node that draws on every second tick: the third
\* tick has a new drawing, which its second pull returns as well
C40_Witness ==
    /\ SingleDriver
    /\ rc_modulo = 2
    /\ Len(rc_log) = 5
    /\ ~StartsRun(2) /\ StartsRun(3) /\ StartsRun(4) /\ ~StartsRun(5)
    /\ ~Generated(3) /\ Generated(4)
    /\ rc_log[3].frame = rc_log[1].frame
    /\ rc_log[4].frame # rc_log[1].frame
    /\ rc_log[5].frame = rc_log[4].frame

----------------------------------------------------------------------------
(* AudioBuffer, Loudness::provide_number, Average::provide_number *)

\* samples are fixed-point: the f32 value x is the integer x * Scale
Scale == 4

\* Average::alpha is avg_alpha / AlphaDen
AlphaDen == 2

\* AudioBuffer::frame_size = sample_rate / fps
FrameSize == 2

\* audio.rs:6: BUFFER_FRAMES (250 in the source)
BufferFrames == 1

\* the longest chunk the capture callback pushes at once
MaxChunk == 2

\* audio.rs:19
BufSize == FrameSize * BufferFrames

\* the samples the capture thread delivers: 0.0 and 1.0
Samples == {0, Scale}

Chunks == UNION {[1..n -> Samples] : n \in 1..MaxChunk}

\* an f32 result is finite, with a fixed-point value, or NaN
Finite(x) == [nan |-> FALSE, value |-> x]

NaN == [nan |-> TRUE, value |-> 0]

Min(a, b) == IF a < b THEN a ELSE b

\* usize::saturating_sub
SaturatingSub(a, b) == IF a > b THEN a - b ELSE 0

\* a push that accepts only chunks shorter than buf_size
AcceptsShorter(data) == Len(data) < BufSize

\* audio.rs:39: the assertion at the head of push
PushAccepted(data) == Len(data) <= BufSize

\* audio.rs:45: new_head = buf_len - self.buf_size
NewHead(buf) == Len(buf) - BufSize

\* a push that never compacts
PushNoCompaction(buf, data) == buf \o data

\* a push whose compaction keeps the oldest buf_size samples
PushKeepsOldest(buf, data) ==
    IF Len(buf) + Len(data) > 2 * BufSize
    THEN SubSeq(buf, 1, BufSize) \o data
    ELSE buf \o data

\* a push whose compaction resizes without moving the newest samples to
\* the front first, so that filler takes their place
PushLeavesFiller(buf, data) ==
    IF Len(buf) + Len(data) > 2 * BufSize
    THEN [i \in 1..BufSize |-> 0] \o data
    ELSE buf \o data

\* audio.rs:41-50: the body of AudioBuffer::push, under the buffer's mutex:
\* copy_within(new_head.., 0), resize(buf_size), extend_from_slice(data)
Push(buf, data) ==
    IF Len(buf) + Len(data) > 2 * BufSize
    THEN SubSeq(buf, NewHead(buf) + 1, Len(buf)) \o data
    ELSE buf \o data

\* audio.rs:53-58 and 74-80: AudioBuffer::frames and the guard's deref
Frames(buf, frames) ==
    SubSeq(buf, SaturatingSub(Len(buf), Min(FrameSize * frames, BufSize)) + 1,
           Len(buf))

\* audio.rs:60-65 and 74-80: AudioBuffer::exact and the guard's deref
Exact(buf, n) ==
    SubSeq(buf, SaturatingSub(Len(buf), Min(n, BufSize)) + 1, Len(buf))

RECURSIVE SumSquares(_)
SumSquares(data) ==
    IF data = <<>> THEN 0
    ELSE (Head(data) * Head(data)) \div Scale + SumSquares(Tail(data))

\* f32::sqrt in fixed point: the largest r with r * r <= x * Scale
Sqrt(x) == CHOOSE r \in 0..(x + Scale) :
              /\ r * r <= x * Scale
              /\ (r + 1) * (r + 1) > x * Scale

\* loudness.rs:28-36: the root mean square of the last frame; an empty
\* slice divides 0.0 by 0.0
Rms(data) ==
    IF Len(data) = 0 THEN NaN ELSE Finite(Sqrt(SumSquares(data) \div Len(data)))

\* loudness.rs:26-37: Loudness::provide_number, which does not look at id
LoudnessNumber(buf, id) == Rms(Frames(buf, 1))

\* average.rs:41
Smooth(alpha, current, previous) ==
    IF current.nan \/ previous.nan THEN NaN
    ELSE Finite((alpha * current.value + (AlphaDen - alpha) * previous.value)
                    \div AlphaDen)

\* misc.rs:3-4: AtomicF32::default is the bit pattern of 0.0
AverageStart == Finite(0)

NumberNodes == {"loudness", "average"}

NumberIds == 0..1

NotSeen == {}

\* the first result seen for a node and id is the one kept
Remember(seen, node, id, result) ==
    IF seen[<<node, id>>] = NotSeen
    THEN [seen EXCEPT ![<<node, id>>] = {result}]
    ELSE seen

NumberIdle ==
    /\ ab_buf = <<>>
    /\ avg_alpha = 0
    /\ avg_average = AverageStart
    /\ nm_seen = [k \in NumberNodes \X NumberIds |-> NotSeen]
    /\ nm_pulls = <<>>

\* audio.rs:17-28 and average.rs:16-30: the buffer starts empty, the
\* average at 0.0, and smoothing-factor is an option
NumberInit ==
    /\ ab_buf = <<>>
    /\ avg_alpha \in 0..AlphaDen
    /\ avg_average = AverageStart
    /\ nm_seen = [k \in NumberNodes \X NumberIds |-> NotSeen]
    /\ nm_pulls = <<>>

\* device.rs: the capture callback pushes a chunk of samples
CapturePush ==
    /\ \E data \in Chunks : ab_buf' = Push(ab_buf, data)
    /\ UNCHANGED <<avg_alpha, avg_average, nm_seen, nm_pulls>>
    /\ UNCHANGED notNumber

\* the driver pulls the loudness node
PullLoudness ==
    /\ \E id \in NumberIds :
          LET result == LoudnessNumber(ab_buf, id) IN
          /\ nm_pulls' = <<[node |-> "loudness", id |-> id, result |-> result]>>
          /\ nm_seen' = Remember(nm_seen, "loudness", id, result)
    /\ UNCHANGED <<ab_buf, avg_alpha, avg_average>>
    /\ UNCHANGED notNumber

\* average.rs:38-44: the driver pulls the average node, which pulls its
\* input, the loudness node, with the same id
PullAverage ==
    /\ \E id \in NumberIds :
          LET current == LoudnessNumber(ab_buf, id)
              average == Smooth(avg_alpha, current, avg_average) IN
          /\ avg_average' = average
          /\ nm_pulls' = <<[node |-> "loudness", id |-> id, result |-> current],
                           [node |-> "average", id |-> id, result |-> average]>>
          /\ nm_seen' = Remember(Remember(nm_seen, "loudness", id, current),
                                 "average", id, average)
    /\ UNCHANGED <<ab_buf, avg_alpha>>
    /\ UNCHANGED notNumber

NumberNext == CapturePush \/ PullLoudness \/ PullAverage

\* C7: every pull of a node returns the result that the first pull of
\* that node with the same FrameId returned.
C7_SameIdSameResult ==
    \A n \in 1..Len(nm_pulls) :
        nm_seen[<<nm_pulls[n].node, nm_pulls[n].id>>] = {nm_pulls[n].result}

\* the pull of the average node the driver made last, and the value its
\* input returned for that pull
AveragePulled == Len(nm_pulls) = 2

InputReturned == nm_pulls[1].result

AverageReturned == nm_pulls[2].result

\* C21: an Average that starts at 0 returns, with smoothing factor 1.0,
\* exactly what its input returned for the pull, and with smoothing factor
\* 0.0 it returns 0 whatever the inputs are.  Violated: a not-a-number
\* input poisons the stored average.
C21_ExtremeFactors ==
    AveragePulled =>
        /\ avg_alpha = AlphaDen => AverageReturned = InputReturned
        /\ avg_alpha = 0 => AverageReturned = Finite(0)

\* what does hold: the same, as long as every input so far was a number
C21_ExtremeFactorsWhileInputsFinite ==
    (AveragePulled /\ ~avg_average.nan) =>
        /\ avg_alpha = AlphaDen => AverageReturned = InputReturned
        /\ avg_alpha = 0 => AverageReturned = Finite(0)

----------------------------------------------------------------------------
(* AudioBuffer: push, frames, exact and AudioDataGuard (util/audio.rs) *)

\* the samples the model follows: three capacities and one more
MaxPushed == 3 * BufSize + 1

\* the n-th sample the capture thread delivers is the number n
ChunkAfter(pushed, len) == [i \in 1..len |-> pushed + i]

NoView == [op |-> "none", requested |-> 0, data |-> <<>>]

NoPush == [op |-> "none", len |-> 0, accepted |-> TRUE, before |-> <<>>,
           lock |-> "free"]

AudioIdle ==
    /\ au_lock = "free"
    /\ au_pc = "off"
    /\ au_chunk = <<>>
    /\ au_pushed = 0
    /\ au_new_head = 0
    /\ au_last = NoPush
    /\ au_view = NoView

\* audio.rs:17-28: AudioBuffer::new, an empty Vec behind an unlocked mutex
AudioInit ==
    /\ au_lock = "free"
    /\ au_pc = "idle"
    /\ au_chunk = <<>>
    /\ au_pushed = 0
    /\ au_new_head = 0
    /\ au_last = NoPush
    /\ au_view = NoView

\* audio.rs:38-39: push is called with a chunk and checks its length; a
\* chunk that is too long panics here, whoever holds the mutex
AuPushCall ==
    /\ au_pc = "idle"
    /\ \E len \in 0..(BufSize + 1) :
          LET data == ChunkAfter(au_pushed, len) IN
          /\ au_pushed + len <= MaxPushed
          /\ au_last' = [op |-> "push", len |-> len,
                         accepted |-> PushAccepted(data), before |-> ab_buf,
                         lock |-> au_lock]
          /\ IF PushAccepted(data)
             THEN /\ au_chunk' = data
                  /\ au_pc' = "lock"
             ELSE /\ au_chunk' = <<>>
                  /\ au_pc' = "panicked"
    /\ UNCHANGED <<ab_buf, au_lock, au_pushed, au_new_head, au_view>>
    /\ UNCHANGED notAudio

\* audio.rs:41-51: the mutex is taken, the buffer compacted when the chunk
\* does not fit, the chunk appended, and the mutex released on return
AuPushLocked ==
    /\ au_pc = "lock"
    /\ au_lock = "free"
    /\ ab_buf' = Push(ab_buf, au_chunk)
    /\ au_new_head' = IF Len(ab_buf) + Len(au_chunk) > 2 * BufSize
                      THEN NewHead(ab_buf) ELSE au_new_head
    /\ au_pushed' = au_pushed + Len(au_chunk)
    /\ au_chunk' = <<>>
    /\ au_pc' = "idle"
    /\ UNCHANGED <<au_lock, au_last, au_view>>
    /\ UNCHANGED notAudio

\* audio.rs:53-58: frames(n) takes the mutex and returns a guard
AuFrames ==
    /\ au_lock = "free"
    /\ \E n \in 0..(BufferFrames + 1) :
          au_view' = [op |-> "frames", requested |-> FrameSize * n,
                      data |-> Frames(ab_buf, n)]
    /\ au_lock' = "view"
    /\ UNCHANGED <<ab_buf, au_pc, au_chunk, au_pushed, au_new_head, au_last>>
    /\ UNCHANGED notAudio

\* audio.rs:60-65: exact(n) takes the mutex and returns a guard
AuExact ==
    /\ au_lock = "free"
    /\ \E n \in 0..(BufSize + 1) :
          au_view' = [op |-> "exact", requested |-> n, data |-> Exact(ab_buf, n)]
    /\ au_lock' = "view"
    /\ UNCHANGED <<ab_buf, au_pc, au_chunk, au_pushed, au_new_head, au_last>>
    /\ UNCHANGED notAudio

\* audio.rs:68-72: the AudioDataGuard is dropped and with it the MutexGuard
AuDropView ==
    /\ au_lock = "view"
    /\ au_lock' = "free"
    /\ au_view' = NoView
    /\ UNCHANGED <<ab_buf, au_pc, au_chunk, au_pushed, au_new_head, au_last>>
    /\ UNCHANGED notAudio

AudioNext == AuPushCall \/ AuPushLocked \/ AuFrames \/ AuExact \/ AuDropView

\* the last n of the samples accepted so far, in push order
LastPushed(n) == [i \in 1..n |-> au_pushed - n + i]

\* C12: the buffer never stores more than 2 x buf_size samples, and no
\* compaction computes a negative new head.
C12_LengthBounded ==
    /\ Len(ab_buf) <= 2 * BufSize
    /\ au_new_head >= 0

\* a compaction has happened with a positive new head and the buffer is
\* full to 2 x buf_size while a reader holds a view
C12_Witness ==
    /\ au_new_head > 0
    /\ Len(ab_buf) = 2 * BufSize
    /\ au_lock = "view"

\* C13: once more than 2 x buf_size samples were pushed, a full-capacity
\* window, frames(BUFFER_FRAMES) or exact(buf_size), holds exactly the last
\* buf_size samples pushed, in push order.
C13_FullWindowIsLastBufSize ==
    (/\ au_pushed > 2 * BufSize
     /\ \/ au_view.op = "frames" /\ au_view.requested = FrameSize * BufferFrames
        \/ au_view.op = "exact" /\ au_view.requested = BufSize)
        => au_view.data = LastPushed(BufSize)

\* a full-capacity window taken after a compaction, of a buffer that holds
\* more than buf_size samples
C13_Witness ==
    /\ au_pushed > 2 * BufSize
    /\ au_view.op = "frames"
    /\ au_view.requested = FrameSize * BufferFrames
    /\ Len(ab_buf) > BufSize
    /\ au_new_head > 0

\* C14: a chunk longer than buf_size is rejected before the mutex is
\* taken, leaving the stored samples as they were; a chunk of buf_size
\* samples or fewer is accepted.
C14_LongChunkRejected ==
    au_last.op = "push" =>
        /\ au_last.accepted <=> au_last.len <= BufSize
        /\ ~au_last.accepted =>
              /\ au_pc = "panicked"
              /\ ab_buf = au_last.before

\* a chunk of buf_size + 1 samples was rejected while a reader held the
\* mutex, after a chunk of exactly buf_size samples had been accepted
C14_Witness ==
    /\ au_last.op = "push"
    /\ ~au_last.accepted
    /\ au_last.len = BufSize + 1
    /\ au_last.lock = "view"
    /\ au_pushed = BufSize
    /\ Len(ab_buf) = BufSize

\* C15: a view holds exactly min(requested, capacity) samples, the most
\* recent ones stored.
C15_ViewHoldsMinRequestedCapacity ==
    au_view.op # "none" =>
        /\ Len(au_view.data) = Min(au_view.requested, BufSize)
        /\ au_view.data = LastPushed(Len(au_view.data))

\* what holds of a view: it holds min(requested, capacity, stored) samples,
\* the most recent ones stored
C15_ViewHoldsWhatIsStored ==
    au_view.op # "none" =>
        /\ Len(au_view.data) = Min(Min(au_view.requested, BufSize), Len(ab_buf))
        /\ au_view.data = LastPushed(Len(au_view.data))

\* every sample pushed so far, in push order: the concatenation of the chunks
AllPushed == [i \in 1..au_pushed |-> i]

\* the last len samples of a sequence
Suffix(seq, len) == SubSeq(seq, Len(seq) - len + 1, Len(seq))

\* the last call of push has returned, and it did not compact
AppendedOnly ==
    /\ au_pc = "idle"
    /\ au_last.op = "push"
    /\ au_last.accepted
    /\ Len(au_last.before) + au_last.len <= 2 * BufSize

\* C29: after any sequence of accepted pushes the stored samples are a
\* contiguous suffix of the concatenation of all pushed chunks, in push
\* order, nothing duplicated, reordered or replaced by filler; and a push
\* that does not compact only appends, leaving the earlier samples as they
\* were.
C29_StoredIsSuffixOfPushed ==
    /\ Len(ab_buf) <= au_pushed
    /\ ab_buf = Suffix(AllPushed, Len(ab_buf))
    /\ AppendedOnly =>
          /\ Len(ab_buf) = Len(au_last.before) + au_last.len
          /\ SubSeq(ab_buf, 1, Len(au_last.before)) = au_last.before

\* a push compacted the buffer and the push after it only appended
C29_Witness ==
    /\ AppendedOnly
    /\ au_new_head > 0
    /\ au_last.len > 0
    /\ Len(ab_buf) > BufSize
    /\ ab_buf[1] > 1

\* util/spectrum.rs:175: assert_eq!(self.input.len(), data.len()) of
\* Stft::compute fails, for a transform made with window_len
InvalidWindowSize(window_len, data) == Len(data) # window_len

\* C38: the sample window a spectrum node passes to the transform,
\* data.exact(window_len), has the configured window length, so the
\* transform's length assertion never fails, also before window_len
\* samples were captured and for a window longer than the capacity.
C38_WindowHasConfiguredLength ==
    au_view.op = "exact" => ~InvalidWindowSize(au_view.requested, au_view.data)

\* what holds: the window has the configured length once that many samples
\* are stored, for a window no longer than the capacity
C38_WindowHasConfiguredLengthOnceFilled ==
    (au_view.op = "exact" /\ au_view.requested <= Min(BufSize, Len(ab_buf)))
        => ~InvalidWindowSize(au_view.requested, au_view.data)

----------------------------------------------------------------------------
(* The Node trait and its implementations (pipeline.rs, sources/, *)
(* processors/, sinks/)                                            *)

\* the calls the model follows on one node
MaxNodeCalls == 3

\* pipeline.rs:24-47: the methods of Node that have a panicking default
Methods == {"provide_audio_data", "provide_video_frame", "provide_spectrum",
            "provide_number", "start"}

\* the capability a provide method belongs to
CapabilityOf(method) ==
    CASE method = "provide_audio_data"  -> "ProvideAudioData"
      [] method = "provide_video_frame" -> "ProvideVideoFrame"
      [] method = "provide_spectrum"    -> "ProvideSpectrum"
      [] method = "provide_number"      -> "ProvideNumber"
      [] OTHER                          -> "none"

\* an implementation that overrides every method of the trait
OverridesEverything(node_type, method) == TRUE

\* the methods each `impl Node for` block defines itself
Overrides(node_type, method) ==
    CASE node_type = "device"       -> method = "provide_audio_data"
      [] node_type = "random-color" -> method = "provide_video_frame"
      [] node_type = "rtsp"         -> method = "start"
      [] node_type = "average"      -> method = "provide_number"
      [] node_type = "circle"       -> method = "provide_video_frame"
      [] node_type = "equalizer"    -> method = "provide_video_frame"
      [] node_type = "loudness"     -> method = "provide_number"
      [] node_type = "merge"        -> method = "provide_video_frame"
      [] node_type = "spectrum"     -> method = "provide_spectrum"
      [] OTHER                      -> FALSE

\* Node::is_sink: the trait's default is false, RtspSink overrides it
NodeIsSink(node_type) == node_type = "rtsp"

\* what a call of the method does: the node's own method returns a value,
\* the default of a provide method panics, and the default start asserts
\* is_sink() before it returns Ok
CallOutcome(node_type, method) ==
    IF Overrides(node_type, method) THEN "value"
    ELSE IF method = "start" /\ NodeIsSink(node_type) THEN "value"
    ELSE "panic"

NodeIdle ==
    /\ nd_type = "none"
    /\ nd_calls = <<>>

\* a node of one of the built-in kinds has been constructed
NodeInit ==
    /\ nd_type \in FactoryTypes
    /\ nd_calls = <<>>

\* some holder of the node calls one of its methods; a panic ends the run
NodeCall ==
    /\ Len(nd_calls) < MaxNodeCalls
    /\ \A n \in 1..Len(nd_calls) : nd_calls[n].outcome # "panic"
    /\ \E method \in Methods :
          nd_calls' = Append(nd_calls, [method |-> method,
                                        outcome |-> CallOutcome(nd_type, method)])
    /\ UNCHANGED nd_type
    /\ UNCHANGED notNode

NodeNext == NodeCall

\* C16: a pull returns a value only from a node that advertises the
\* capability, a pull of a capability the node does not advertise panics,
\* and start() on a node that is no sink panics.
C16_PullMatchesCapability ==
    \A n \in 1..Len(nd_calls) :
        LET call == nd_calls[n] IN
        IF call.method = "start"
        THEN ~NodeIsSink(nd_type) => call.outcome = "panic"
        ELSE /\ call.outcome = "value"
                   => HasCapability(nd_type, CapabilityOf(call.method))
             /\ ~HasCapability(nd_type, CapabilityOf(call.method))
                   => call.outcome = "panic"

\* a merge node returned a video frame twice and then panicked on start()
C16_Witness ==
    /\ nd_type = "merge"
    /\ Len(nd_calls) = 3
    /\ nd_calls[1] = [method |-> "provide_video_frame", outcome |-> "value"]
    /\ nd_calls[3] = [method |-> "start", outcome |-> "panic"]

----------------------------------------------------------------------------
(* NodeFactory::register and NodeFactory::default (pipeline.rs) *)

\* the register calls the model follows after the factory was created
MaxRegisters == 3

\* pipeline.rs:197-208: the order in which default() registers the kinds,
\* each under the name its node_type() returns
DefaultOrder == <<"device", "random-color", "rtsp", "average", "circle",
                  "equalizer", "loudness", "merge", "spectrum">>

\* the type names a program registers on top: new ones and built-in ones
ExtraTypes == {"custom-a", "custom-b", "custom-c", "merge", "rtsp"}

\* an insert that never finds an existing entry
NeverExisting(constructors, node_type) == FALSE

\* pipeline.rs:163-166: HashMap::insert(..).is_some()
Existing(constructors, node_type) == node_type \in constructors

FactoryIdle ==
    /\ fa_constructors = {}
    /\ fa_pc = "off"
    /\ fa_todo = <<>>
    /\ fa_default = FALSE
    /\ fa_names = <<>>

\* pipeline.rs:153-157 and 195: NodeFactory::empty(), on its own or as the
\* first statement of NodeFactory::default()
FactoryInit ==
    /\ fa_constructors = {}
    /\ fa_default \in BOOLEAN
    /\ fa_todo = IF fa_default THEN DefaultOrder ELSE <<>>
    /\ fa_pc = IF fa_default THEN "default" ELSE "ready"
    /\ fa_names = <<>>

\* pipeline.rs:159-171: register inserts the constructor and then asserts
\* that the insert replaced nothing
Register(node_type, next_pc) ==
    /\ fa_constructors' = fa_constructors \cup {node_type}
    /\ fa_names' = Append(fa_names, node_type)
    /\ fa_pc' = IF Existing(fa_constructors, node_type) THEN "panicked" ELSE next_pc

\* pipeline.rs:197-210: the next register call of NodeFactory::default
DefaultRegister ==
    /\ fa_pc = "default"
    /\ fa_todo # <<>>
    /\ Register(Head(fa_todo), IF Len(fa_todo) = 1 THEN "ready" ELSE "default")
    /\ fa_todo' = Tail(fa_todo)
    /\ UNCHANGED fa_default
    /\ UNCHANGED notFactory

\* the program registers a constructor of its own
UserRegister ==
    /\ fa_pc = "ready"
    /\ Len(fa_names) < Len(IF fa_default THEN DefaultOrder ELSE <<>>) + MaxRegisters
    /\ \E node_type \in ExtraTypes : Register(node_type, "ready")
    /\ UNCHANGED <<fa_todo, fa_default>>
    /\ UNCHANGED notFactory

FactoryNext == DefaultRegister \/ UserRegister

\* pipeline.rs:186-190: NodeFactory::get(node_type).is_some()
Resolvable(node_type) == node_type \in fa_constructors

\* some name was registered twice
DuplicateRegistered ==
    \E i, j \in 1..Len(fa_names) : i < j /\ fa_names[i] = fa_names[j]

\* C17: register panics exactly when its type name is registered already,
\* and NodeFactory::default() completes with every built-in kind
\* resolvable.
C17_DuplicateRegisterPanics ==
    /\ fa_pc = "panicked" <=> DuplicateRegistered
    /\ fa_pc = "panicked" => fa_todo = <<>>
    /\ (fa_default /\ fa_pc = "ready") =>
          \A node_type \in FactoryTypes : Resolvable(node_type)
    /\ FactoryTypes = Range(DefaultOrder)

\* after default() completed, a new name was registered without a panic
\* and then the built-in name merge was registered again and panicked
C17_Witness ==
    /\ fa_default
    /\ fa_pc = "panicked"
    /\ Len(fa_names) = Len(DefaultOrder) + 2
    /\ fa_names[Len(DefaultOrder) + 1] = "custom-a"
    /\ fa_names[Len(DefaultOrder) + 2] = "merge"
    /\ \A node_type \in FactoryTypes : Resolvable(node_type)

----------------------------------------------------------------------------
(* The constructors of the built-in kinds and the pulls of their nodes *)

\* the longest input list a constructor is given
MaxCtorInputs == 2

\* video.rs:202: the fps of VideoConfig::default
DefaultFps == 24

\* the nodes behind the inputs: one kind for each capability, and a sink
InputKinds == {"device", "random-color", "spectrum", "loudness", "rtsp"}

\* the bounds of a frequency-range option, in Hz
FrequencyValues == {-1, 0, 1, 2}

\* the values of an update-every option, in milliseconds
UpdateEveryValues == {-1000, 0, 20, 21, 1000}

\* the options a definition carries: malformed stands for a value of the
\* wrong type under a key the kind reads
OptionValues ==
    [malformed : BOOLEAN, f_min : FrequencyValues, f_max : FrequencyValues,
     update_every : UpdateEveryValues]

\* (n / d).round() as usize: rounds half away from zero, and the cast of
\* a negative float saturates at zero
RoundToUsize(n, d) == IF n < 0 THEN 0 ELSE (2 * n + d) \div (2 * d)

\* random_color.rs:45-46: the modulo handed to FrameCounter::new
FrameCounterModulo(update_every) == RoundToUsize(update_every * DefaultFps, 1000)

\* the kinds whose constructor reads its options; the others take `_: Options`
ReadsOptions(node_type) ==
    node_type \in {"random-color", "average", "merge", "spectrum"}

\* what the constructor makes of its options once its inputs are valid:
\* spectrum.rs:21-44 with the assertions of util/spectrum.rs:37-40, and
\* random_color.rs:27-46 with the assertion of misc.rs:28
OptionsOutcome(node_type, options) ==
    IF ~ReadsOptions(node_type) THEN "Ok"
    ELSE IF options.malformed THEN "InvalidOptions"
    ELSE IF node_type = "spectrum"
    THEN IF ~(options.f_min < options.f_max) THEN "InvalidOptions"
         ELSE IF ~(options.f_min > 0) THEN "panic"
         ELSE "Ok"
    ELSE IF node_type = "random-color"
    THEN IF ~(FrameCounterModulo(options.update_every) > 0) THEN "panic"
         ELSE "Ok"
    ELSE "Ok"

\* ConstructNode::construct of a built-in kind: the inputs are validated
\* first, then the options are read, then the platform is asked
ConstructWith(node_type, input_types, options, platform_ok) ==
    IF ~InputsValid(node_type, input_types) THEN "InvalidInputs"
    ELSE IF OptionsOutcome(node_type, options) # "Ok"
    THEN OptionsOutcome(node_type, options)
    ELSE IF UsesPlatform(node_type) /\ ~platform_ok THEN "System"
    ELSE "Ok"

\* the method a node of the kind calls on its inputs when it is pulled
PullMethod(node_type) ==
    CASE node_type = "rtsp"      -> "provide_video_frame"
      [] node_type = "average"   -> "provide_number"
      [] node_type = "circle"    -> "provide_number"
      [] node_type = "equalizer" -> "provide_spectrum"
      [] node_type = "loudness"  -> "provide_audio_data"
      [] node_type = "merge"     -> "provide_video_frame"
      [] node_type = "spectrum"  -> "provide_audio_data"
      [] OTHER                   -> "none"

\* the numbers of inputs a node of the kind can use: none for a source,
\* the one it stores as `input`, or merge's non-empty `inputs`
UsableInputCounts(node_type) ==
    IF PullMethod(node_type) = "none" THEN {0}
    ELSE IF node_type = "merge" THEN 1..MaxCtorInputs
    ELSE {1}

ConstructIdle ==
    /\ ct_type = "none"
    /\ ct_inputs = <<>>
    /\ ct_options = [malformed |-> FALSE, f_min |-> 1, f_max |-> 2,
                     update_every |-> 1000]
    /\ ct_pc = "off"
    /\ ct_result = "none"
    /\ ct_pulls = <<>>

\* a constructor of a built-in kind is about to be called
ConstructInit ==
    /\ ct_type \in FactoryTypes
    /\ ct_inputs \in UNION {[1..n -> InputKinds] : n \in 0..MaxCtorInputs}
    /\ ct_options \in OptionValues
    /\ ct_pc = "new"
    /\ ct_result = "none"
    /\ ct_pulls = <<>>

\* pipeline.rs:173-184: NodeFactory::construct calls the constructor
CtConstruct ==
    /\ ct_pc = "new"
    /\ \E platform_ok \in BOOLEAN :
          LET result == ConstructWith(ct_type, ct_inputs, ct_options, platform_ok)
          IN  /\ ct_result' = result
              /\ ct_pc' = CASE result = "Ok"    -> "built"
                            [] result = "panic" -> "panicked"
                            [] OTHER            -> "failed"
    /\ UNCHANGED <<ct_type, ct_inputs, ct_options, ct_pulls>>
    /\ UNCHANGED notConstruct

\* the built node is pulled and pulls its next input
CtPull ==
    /\ ct_pc = "built"
    /\ Len(ct_pulls) < Len(ct_inputs)
    /\ LET i == Len(ct_pulls) + 1 IN
       ct_pulls' = Append(ct_pulls,
                          [input |-> ct_inputs[i], method |-> PullMethod(ct_type),
                           outcome |-> CallOutcome(ct_inputs[i], PullMethod(ct_type))])
    /\ UNCHANGED <<ct_type, ct_inputs, ct_options, ct_pc, ct_result>>
    /\ UNCHANGED notConstruct

ConstructNext == CtConstruct \/ CtPull

\* some input lacks the capability the node pulls from its inputs
LacksCapability ==
    \E i \in 1..Len(ct_inputs) :
        ~HasCapability(ct_inputs[i], CapabilityOf(PullMethod(ct_type)))

\* C18: a constructor given a number of inputs its node cannot use, or an
\* input without the capability its node pulls, returns InvalidInputs; so
\* every pull a built node issues reaches a capability its input has.
C18_InputsValidatedAtConstruction ==
    /\ (/\ ct_pc # "new"
        /\ \/ Len(ct_inputs) \notin UsableInputCounts(ct_type)
           \/ LacksCapability)
          => ct_result = "InvalidInputs"
    /\ \A n \in 1..Len(ct_pulls) :
          /\ ct_pulls[n].outcome = "value"
          /\ HasCapability(ct_pulls[n].input, CapabilityOf(ct_pulls[n].method))

\* a merge node was built over two video sources and pulled both
C18_Witness ==
    /\ ct_type = "merge"
    /\ ct_pc = "built"
    /\ Len(ct_pulls) = 2
    /\ ct_pulls[2].method = "provide_video_frame"

\* the options hold a value outside the range the kind can use
OutOfRange ==
    \/ ct_type = "spectrum" /\ (ct_options.f_min <= 0 \/ ct_options.f_max <= ct_options.f_min)
    \/ ct_type = "random-color" /\ FrameCounterModulo(ct_options.update_every) = 0

\* C20: a constructor given valid inputs and an out-of-range option value
\* returns InvalidOptions and does not panic.
C20_OutOfRangeIsInvalidOptions ==
    (ct_pc # "new" /\ InputsValid(ct_type, ct_inputs) /\ OutOfRange)
        => ct_result = "InvalidOptions"

\* what holds: a frequency-range whose lower bound is not below its upper
\* bound is answered with InvalidOptions
C20_ReversedRangeIsInvalidOptions ==
    (/\ ct_pc # "new"
     /\ ct_type = "spectrum"
     /\ InputsValid(ct_type, ct_inputs)
     /\ ct_options.f_max <= ct_options.f_min)
        => ct_result = "InvalidOptions"

----------------------------------------------------------------------------
(* NodeRef: Arc<AtomicRefCell<dyn Node>> (pipeline.rs) *)

\* the drivers: the need-data callbacks of two sinks
Drivers == {"d1", "d2"}

\* the shared nodes: mix pulls color, and a sink's input is either of them
RefNodes == {"mix", "color"}

Unborrowed == "free"

RefIdle ==
    /\ cell = [n \in RefNodes |-> Unborrowed]
    /\ ref_pc = [d \in Drivers |-> "off"]
    /\ ref_id = [d \in Drivers |-> 0]
    /\ ref_target = [d \in Drivers |-> "color"]
    /\ ref_done = 0

\* pipeline.rs:63-65: NodeRef::new; each sink holds a clone of its input
RefInit ==
    /\ cell = [n \in RefNodes |-> Unborrowed]
    /\ ref_pc = [d \in Drivers |-> "idle"]
    /\ ref_id = [d \in Drivers |-> 0]
    /\ ref_target \in [Drivers -> RefNodes]
    /\ ref_done = 0

RefPullsStarted ==
    ref_done + Cardinality({d \in Drivers : ref_pc[d] \notin {"idle", "off"}})

\* rtsp.rs: the need-data callback pulls the sink's input with a FrameId
RefCall(d) ==
    /\ ref_pc[d] = "idle"
    /\ RefPullsStarted < MaxPulls
    /\ \E id \in NumberIds : ref_id' = [ref_id EXCEPT ![d] = id]
    /\ ref_pc' = [ref_pc EXCEPT ![d] = "borrow_" \o ref_target[d]]
    /\ UNCHANGED <<cell, ref_target, ref_done>>
    /\ UNCHANGED notRef

\* the cells a driver holds are released when its thread unwinds
Unwind(cells, d) == [n \in RefNodes |-> IF cells[n] = d THEN Unborrowed ELSE cells[n]]

\* pipeline.rs:81-95: AtomicRefCell::borrow_mut, which panics when the
\* cell is already borrowed
BorrowMut(d, node) ==
    /\ ref_pc[d] = "borrow_" \o node
    /\ IF cell[node] = Unborrowed
       THEN /\ cell' = [cell EXCEPT ![node] = d]
            /\ ref_pc' = [ref_pc EXCEPT ![d] = "in_" \o node]
       ELSE /\ cell' = Unwind(cell, d)
            /\ ref_pc' = [ref_pc EXCEPT ![d] = "panicked"]
    /\ UNCHANGED <<ref_id, ref_target, ref_done>>
    /\ UNCHANGED notRef

\* merge.rs: inside mix, the node pulls its input color through its NodeRef
MixPullsInput(d) ==
    /\ ref_pc[d] = "in_mix"
    /\ ref_pc' = [ref_pc EXCEPT ![d] = "borrow_color"]
    /\ UNCHANGED <<cell, ref_id, ref_target, ref_done>>
    /\ UNCHANGED notRef

\* color's method returns and the AtomicRefMut is dropped
ColorReturns(d) ==
    /\ ref_pc[d] = "in_color"
    /\ cell' = [cell EXCEPT !["color"] = Unborrowed]
    /\ IF cell["mix"] = d
       THEN /\ ref_pc' = [ref_pc EXCEPT ![d] = "back_in_mix"]
            /\ UNCHANGED ref_done
       ELSE /\ ref_pc' = [ref_pc EXCEPT ![d] = "idle"]
            /\ ref_done' = ref_done + 1
    /\ UNCHANGED <<ref_id, ref_target>>
    /\ UNCHANGED notRef

\* mix's method returns and the AtomicRefMut is dropped
MixReturns(d) ==
    /\ ref_pc[d] = "back_in_mix"
    /\ cell' = [cell EXCEPT !["mix"] = Unborrowed]
    /\ ref_pc' = [ref_pc EXCEPT ![d] = "idle"]
    /\ ref_done' = ref_done + 1
    /\ UNCHANGED <<ref_id, ref_target>>
    /\ UNCHANGED notRef

RefNext ==
    \E d \in Drivers :
        \/ RefCall(d)
        \/ \E node \in RefNodes : BorrowMut(d, node)
        \/ MixPullsInput(d)
        \/ ColorReturns(d)
        \/ MixReturns(d)

\* C9: no driver's pull fails fatally because the node it reaches through
\* its NodeRef is being accessed by the other driver.
C9_NoPullPanics == \A d \in Drivers : ref_pc[d] # "panicked"

----------------------------------------------------------------------------
(* Equalizer::provide_video_frame (processors/equalizer.rs, util/video.rs) *)

\* VideoFrame::width and VideoFrame::height of the frame that is drawn on
EqWidth == 2

EqHeight == 6

\* the pulls of the equalizer that are followed
MaxEqPulls == 2

\* a magnitude m stands for the norm m / MagDen, so that m * frame_height
\* falls on whole and on half pixels
MagDen == 2 * EqHeight

\* the norms of the bins: 0.0, those whose bars are 4 and 5 pixels high,
\* 1.0, and one above 1.0 (a bar higher than the frame)
Magnitudes == {0, 7, 8, 9, 10, MagDen, MagDen + 1}

\* spectrum.len() of the input's spectrum
BinCounts == {0, 1, 2}

Spectra == UNION {[1..n -> Magnitudes] : n \in BinCounts}

Columns == 0..(EqWidth - 1)

Rows == 0..(EqHeight - 1)

\* video.rs:1-4: the bytes of a BGRx pixel
BlackPixel == <<0, 0, 0, 0>>

\* what a node that drew on the frame before may have left in it
PaintedPixels == {<<10, 20, 30, 0>>, <<200, 100, 50, 0>>}

\* video.rs:60-62: Pixel::set_grayscale fills the first three bytes
SetGrayscale(pixel, value) == <<value, value, value, pixel[4]>>

\* video.rs:96-107 and 131-133: VideoFrame::new and VideoFrame::clear
ZeroFrame == [p \in Columns \X Rows |-> BlackPixel]

\* (a as f32 / b as f32).ceil() as usize, for b > 0
CeilDiv(a, b) == (a + b - 1) \div b

\* equalizer.rs:31
BinWidth(spectrum) == CeilDiv(EqWidth, Len(spectrum))

\* equalizer.rs:35; for an empty spectrum the width is the cast of an
\* infinite float, usize::MAX, and every column falls into bin 0
BinOf(x, spectrum) ==
    IF Len(spectrum) = 0 THEN 0 ELSE x \div BinWidth(spectrum)

\* equalizer.rs:39: the lowest bar that is drawn
MinBarHeight == 5

\* an equalizer that draws every bar, however low
DrawsEveryBar(bin_height) == bin_height

\* equalizer.rs:39: ignore too-low bins
IgnoreTooLow(bin_height) == IF bin_height < MinBarHeight THEN 0 ELSE bin_height

\* equalizer.rs:36-37: (amplitude * frame_height as f32).round() as usize
RoundedHeight(magnitude) == RoundToUsize(magnitude * EqHeight, MagDen)

\* equalizer.rs:36-39
BinHeight(x, spectrum) == IgnoreTooLow(RoundedHeight(spectrum[BinOf(x, spectrum) + 1]))

\* equalizer.rs:36: spectrum[bin] on a spectrum without that bin
IndexPanics(x, spectrum) == BinOf(x, spectrum) >= Len(spectrum)

\* equalizer.rs:41: frame_height - bin_height underflows usize
Underflows(x, spectrum) == BinHeight(x, spectrum) > EqHeight

\* video.rs:139-143: apply visits the pixels line by line
VisitOrder(x, y) == y * EqWidth + x

\* the columns at which the closure panics: always on a missing bin, and
\* in a build with overflow checks on an underflow
PanicsAt(spectrum, checked) ==
    {x \in Columns :
        \/ IndexPanics(x, spectrum)
        \/ checked /\ Underflows(x, spectrum)}

\* the number of pixels the closure is applied to without a panic: all of
\* them, or those of the first line before the first column that panics
Visited(spectrum, checked) ==
    LET stops == PanicsAt(spectrum, checked) IN
    IF stops = {} THEN EqWidth * EqHeight
    ELSE CHOOSE x \in stops : \A other \in stops : x <= other

\* equalizer.rs:41-43 for one pixel; without overflow checks the
\* difference wraps to a row no frame has
DrawPixel(x, y, pixel, spectrum) ==
    IF Underflows(x, spectrum) THEN pixel
    ELSE IF y >= EqHeight - BinHeight(x, spectrum)
         THEN SetGrayscale(pixel, 255)
         ELSE pixel

\* equalizer.rs:34-44: the first `visited` pixels are drawn
Draw(frame, spectrum, visited) ==
    [p \in Columns \X Rows |->
        IF VisitOrder(p[1], p[2]) < visited
        THEN DrawPixel(p[1], p[2], frame[p], spectrum)
        ELSE frame[p]]

EqualizerIdle ==
    /\ eq_frame = ZeroFrame
    /\ eq_before = ZeroFrame
    /\ eq_spectrum = <<>>
    /\ eq_outcome = "off"
    /\ eq_pulls = 0

\* video.rs:96-107: the frame starts zeroed
EqualizerInit ==
    /\ eq_frame = ZeroFrame
    /\ eq_before = ZeroFrame
    /\ eq_spectrum = <<>>
    /\ eq_outcome = "none"
    /\ eq_pulls = 0

EqRunning == eq_outcome \in {"none", "returned"} /\ eq_pulls < MaxEqPulls

\* rtsp.rs:111: the sink clears the frame before a pull
EqClear ==
    /\ EqRunning
    /\ eq_frame' = ZeroFrame
    /\ eq_outcome' = "none"
    /\ UNCHANGED <<eq_before, eq_spectrum, eq_pulls>>
    /\ UNCHANGED notEqualizer

\* merge.rs:81 and 90: the frame a Merge hands to its second input holds
\* what its first input produced
EqPainted ==
    /\ EqRunning
    /\ \E pixel \in PaintedPixels :
          eq_frame' = [p \in Columns \X Rows |-> pixel]
    /\ eq_outcome' = "none"
    /\ UNCHANGED <<eq_before, eq_spectrum, eq_pulls>>
    /\ UNCHANGED notEqualizer

\* equalizer.rs:28-45: Equalizer::provide_video_frame on the spectrum its
\* input returns, in a build with or without overflow checks
EqProvideVideoFrame ==
    /\ EqRunning
    /\ \E spectrum \in Spectra, checked \in BOOLEAN :
          /\ eq_spectrum' = spectrum
          /\ eq_before' = eq_frame
          /\ \E visited \in {Visited(spectrum, checked)} :
                eq_frame' = Draw(eq_frame, spectrum, visited)
          /\ eq_outcome' = IF PanicsAt(spectrum, checked) = {}
                           THEN "returned" ELSE "panicked"
    /\ eq_pulls' = eq_pulls + 1
    /\ UNCHANGED notEqualizer

EqualizerNext == EqClear \/ EqPainted \/ EqProvideVideoFrame

\* the rows of a frame counted from its bottom line
RowFromBottom(y) == EqHeight - 1 - y

IsWhite(pixel) == pixel[1] = 255 /\ pixel[2] = 255 /\ pixel[3] = 255

\* the columns of the frame that show bin b
ColumnsOf(b) == {x \in Columns : BinOf(x, eq_spectrum) = b}

\* C22: after a pull, a bin whose height round(magnitude * frame_height) is
\* below 5 has left every pixel of its columns as it was, and a bin of
\* height h from 5 up to the frame's height has made exactly the bottom h
\* rows of its columns white and left the other rows as they were.
C22_BarsFromFivePixels ==
    eq_outcome = "returned" =>
        \A b \in 0..(Len(eq_spectrum) - 1) : \A x \in ColumnsOf(b) : \A y \in Rows :
            LET h == RoundedHeight(eq_spectrum[b + 1]) IN
            /\ h < 5 => eq_frame[<<x, y>>] = eq_before[<<x, y>>]
            /\ (h >= 5 /\ h <= EqHeight) =>
                  IF RowFromBottom(y) < h
                  THEN IsWhite(eq_frame[<<x, y>>])
                  ELSE eq_frame[<<x, y>>] = eq_before[<<x, y>>]

\* a pull on a painted frame drew a bin of height 4 and a bin of height 5
C22_Witness ==
    /\ eq_outcome = "returned"
    /\ Len(eq_spectrum) = 2
    /\ RoundedHeight(eq_spectrum[1]) = 4
    /\ RoundedHeight(eq_spectrum[2]) = 5
    /\ ColumnsOf(0) # {} /\ ColumnsOf(1) # {}
    /\ \A p \in Columns \X Rows : ~IsWhite(eq_before[p])

\* the equalizer has been pulled with a spectrum that has bins
EqDrew == eq_pulls > 0 /\ eq_spectrum # <<>>

\* C37: the row threshold frame_height - bar_height is computed without
\* unsigned underflow for every bin magnitude, also for one whose bar
\* round(magnitude * frame_height) is higher than the frame.
C37_ThresholdNeverUnderflows ==
    EqDrew =>
        /\ eq_outcome # "panicked"
        /\ \A x \in Columns : ~Underflows(x, eq_spectrum)

\* what holds: no underflow and no panic as long as no bar is higher than
\* the frame, that is for magnitudes up to 1.0
C37_NoUnderflowUpToFrameHeight ==
    (EqDrew /\ \A k \in 1..Len(eq_spectrum) :
                  RoundedHeight(eq_spectrum[k]) <= EqHeight) =>
        /\ eq_outcome # "panicked"
        /\ \A x \in Columns : ~Underflows(x, eq_spectrum)

----------------------------------------------------------------------------
(* Merge::new and Merge::provide_video_frame (processors/merge.rs) *)

\* the longest list of inputs of a Merge
MaxMergeInputs == 3

\* the longest `contributions` list in the options
MaxContributions == 3

\* an f32 weight n / d
Weight(n, d) == [n |-> n, d |-> d]

\* an option value that is not a number; as_f32 answers None (options.rs:64-69)
TextItem == [n |-> 0, d |-> 0]

IsNumber(item) == item.d # 0

\* the weights the options are written with: 0.5 and 1.0
WrittenWeights == {Weight(1, 2), Weight(1, 1)}

Channels == {"red", "green", "blue"}

RGB(r, g, b) == [red |-> r, green |-> g, blue |-> b]

\* video.rs:131-133: a cleared pixel
Black == RGB(0, 0, 0)

\* the solid colours of the inputs
InputColors == {Black, RGB(255, 255, 255), RGB(1, 2, 255), RGB(7, 100, 254)}

\* an input either fills the frame with its colour (RandomColor copies its
\* cache over it, random_color.rs:125) or leaves this pixel as it found it
\* (Circle and Equalizer set only the pixels of their shape)
MergeInputs == [color : InputColors, covers : BOOLEAN]

MergeInputLists == UNION {[1..n -> MergeInputs] : n \in 0..MaxMergeInputs}

\* the forms of the `contributions` option: absent, a mapping, one scalar,
\* or a sequence
ContributionOptions ==
    {[form |-> "absent", items |-> <<>>], [form |-> "mapping", items |-> <<>>]}
    \cup {[form |-> "scalar", items |-> <<item>>] :
              item \in WrittenWeights \cup {TextItem}}
    \cup {[form |-> "sequence", items |-> items] :
              items \in UNION {[1..n -> WrittenWeights \cup {TextItem}] :
                                   n \in 0..MaxContributions}}

\* the forms of the `mode` option; "other" is any value but the two strings
ModeOptions == {"absent", "sum", "product", "other"}

MergeIds == 0..1

\* video.rs:73-75: from_f, (value * 255.0) as u8, for the value n / (255 d);
\* the cast truncates and saturates
FromF(n, d) == Min(n \div d, 255)

\* merge.rs:75-77: set_red_f(c1 * pixel.red_f())
ScaleByte(c, byte) == FromF(c.n * byte, c.d)

\* merge.rs:110-118 and 93-95: set_red_f(mode.apply(pixel1.red_f(),
\* c * pixel2.red_f()))
MixByte(mode, byte1, c, byte2) ==
    IF mode = "Sum"
    THEN FromF(byte1 * c.d + c.n * byte2, c.d)
    ELSE FromF(byte1 * c.n * byte2, 255 * c.d)

\* merge.rs:74-78
ScalePixel(c, pixel) == [ch \in Channels |-> ScaleByte(c, pixel[ch])]

\* merge.rs:92-96
MixPixel(mode, pixel1, c, pixel2) ==
    [ch \in Channels |-> MixByte(mode, pixel1[ch], c, pixel2[ch])]

\* what an input leaves in the frame it is handed
ProvidedBy(input, frame) == IF input.covers THEN input.color ELSE frame

\* merge.rs:30-44: the `contributions` option, or 1/n for each input
ParseContributions(option, n) ==
    IF option.form = "absent"
    THEN [result |-> "Ok", list |-> [k \in 1..n |-> Weight(1, n)]]
    ELSE IF option.form = "mapping" \/ \E k \in 1..Len(option.items) :
                                          ~IsNumber(option.items[k])
    THEN [result |-> "InvalidOptions", list |-> <<>>]
    ELSE [result |-> "Ok", list |-> option.items]

\* merge.rs:46-54
ParseMode(option) ==
    CASE option = "absent" -> [result |-> "Ok", mode |-> "Sum"]
      [] option = "sum" -> [result |-> "Ok", mode |-> "Sum"]
      [] option = "product" -> [result |-> "Ok", mode |-> "Product"]
      [] OTHER -> [result |-> "InvalidOptions", mode |-> "Sum"]

\* merge.rs:18-61: Merge::new on inputs that all provide video frames
MergeNew(inputs, options) ==
    LET contributions == ParseContributions(options.contributions, Len(inputs))
        mode == ParseMode(options.mode) IN
    IF Len(inputs) = 0 THEN "InvalidInputs"
    ELSE IF contributions.result # "Ok" THEN contributions.result
    ELSE mode.result

\* merge.rs:84-88: inputs.iter_mut().zip(contributions).skip(1) ends with
\* the shorter of the two
LastZipped(inputs, contributions) == Min(Len(inputs), Len(contributions))

\* merge.rs:84-99: the loop over the second and later inputs, from the k-th
RECURSIVE MergeLoop(_, _, _, _, _, _)
MergeLoop(k, inputs, contributions, mode, frame, frame_copy) ==
    IF k > LastZipped(inputs, contributions) THEN frame
    ELSE LET pulled == ProvidedBy(inputs[k], frame_copy) IN
         MergeLoop(k + 1, inputs, contributions, mode,
                   MixPixel(mode, frame, contributions[k], pulled), Black)

\* merge.rs:70 and 84-90: the inputs the pull calls, in order
PulledInputs(inputs, contributions) ==
    IF Len(contributions) = 0 THEN <<1>>
    ELSE <<1>> \o [k \in 1..(LastZipped(inputs, contributions) - 1) |-> k + 1]

\* merge.rs:69-101: the caller's frame after the pull; frame_copy starts as
\* a clone of the frame (81)
MergedFrame(inputs, contributions, mode, frame) ==
    LET first == ProvidedBy(inputs[1], frame)
        scaled == ScalePixel(contributions[1], first) IN
    IF Len(inputs) > 1
    THEN MergeLoop(2, inputs, contributions, mode, scaled, scaled)
    ELSE scaled

\* merge.rs:81-98: the scratch frames the loop hands to the k-th and later
\* inputs; frame_copy is what the loop begins with, and it is cleared at the
\* end of every round
RECURSIVE ScratchFrames(_, _, _, _)
ScratchFrames(k, inputs, contributions, frame_copy) ==
    IF k > LastZipped(inputs, contributions) THEN <<>>
    ELSE <<frame_copy>> \o ScratchFrames(k + 1, inputs, contributions, Black)

\* merge.rs:70, 81 and 90: the frames the pull hands to the inputs it calls:
\* the caller's frame to the first, then the scratch frame, which is made
\* as frame.clone() after the first input's rendering was scaled
HandedFrames(inputs, contributions, frame) ==
    IF Len(contributions) = 0 \/ Len(inputs) = 1 THEN <<frame>>
    ELSE <<frame>> \o
         ScratchFrames(2, inputs, contributions,
                       ScalePixel(contributions[1], ProvidedBy(inputs[1], frame)))

MergeIdle ==
    /\ mg_inputs = <<>>
    /\ mg_options = [contributions |-> [form |-> "absent", items |-> <<>>],
                     mode |-> "absent"]
    /\ mg_pc = "off"
    /\ mg_result = "none"
    /\ mg_contributions = <<>>
    /\ mg_mode = "Sum"
    /\ mg_id = 0
    /\ mg_pulls = <<>>
    /\ mg_handed = <<>>
    /\ mg_frame = Black

MergeInit ==
    /\ mg_inputs \in MergeInputLists
    /\ mg_options \in [contributions : ContributionOptions, mode : ModeOptions]
    /\ mg_pc = "new"
    /\ mg_result = "none"
    /\ mg_contributions = <<>>
    /\ mg_mode = "Sum"
    /\ mg_id = 0
    /\ mg_pulls = <<>>
    /\ mg_handed = <<>>
    /\ mg_frame = Black

\* merge.rs:18-61
MgNew ==
    /\ mg_pc = "new"
    /\ mg_result' = MergeNew(mg_inputs, mg_options)
    /\ mg_pc' = IF mg_result' = "Ok" THEN "built" ELSE "failed"
    /\ mg_contributions' =
          IF mg_result' = "Ok"
          THEN ParseContributions(mg_options.contributions, Len(mg_inputs)).list
          ELSE <<>>
    /\ mg_mode' = IF mg_result' = "Ok" THEN ParseMode(mg_options.mode).mode
                  ELSE "Sum"
    /\ UNCHANGED <<mg_inputs, mg_options, mg_id, mg_pulls, mg_handed, mg_frame>>
    /\ UNCHANGED notMerge

\* merge.rs:69-101 on a frame the sink has cleared (rtsp.rs:111);
\* contributions[0] on an empty list panics after the first input was pulled
MgProvideVideoFrame ==
    /\ mg_pc = "built"
    /\ \E id \in MergeIds :
          /\ mg_id' = id
          /\ mg_pulls' = [k \in 1..Len(PulledInputs(mg_inputs, mg_contributions)) |->
                            [input |-> PulledInputs(mg_inputs, mg_contributions)[k],
                             id |-> id]]
    /\ mg_handed' = HandedFrames(mg_inputs, mg_contributions, Black)
    /\ IF Len(mg_contributions) = 0
       THEN /\ mg_pc' = "panicked"
            /\ mg_frame' = ProvidedBy(mg_inputs[1], Black)
       ELSE /\ mg_pc' = "built"
            /\ mg_frame' = MergedFrame(mg_inputs, mg_contributions, mg_mode, Black)
    /\ UNCHANGED <<mg_inputs, mg_options, mg_result, mg_contributions, mg_mode>>
    /\ UNCHANGED notMerge

MergeNext == MgNew \/ MgProvideVideoFrame

\* a pull of the node has returned
MergePulled == mg_pc = "built" /\ mg_pulls # <<>>

\* C23: a Merge in Sum mode over two solid-colour inputs with contributions
\* [0.5, 0.5] produces in each channel the average of the two inputs'
\* bytes (rounded either way to a byte).  Violated: each term is truncated
\* to a byte before it is added.
C23_SumOfHalvesIsAverage ==
    (/\ MergePulled
     /\ Len(mg_inputs) = 2
     /\ mg_inputs[1].covers /\ mg_inputs[2].covers
     /\ mg_mode = "Sum"
     /\ mg_contributions = <<Weight(1, 2), Weight(1, 2)>>) =>
        \A ch \in Channels :
            LET sum == mg_inputs[1].color[ch] + mg_inputs[2].color[ch] IN
            2 * mg_frame[ch] \in {sum - 1, sum, sum + 1}

\* what does hold: the result is never above the average and never more
\* than one below it
C23_SumOfHalvesWithinOneBelowAverage ==
    (/\ MergePulled
     /\ Len(mg_inputs) = 2
     /\ mg_inputs[1].covers /\ mg_inputs[2].covers
     /\ mg_mode = "Sum"
     /\ mg_contributions = <<Weight(1, 2), Weight(1, 2)>>) =>
        \A ch \in Channels :
            LET sum == mg_inputs[1].color[ch] + mg_inputs[2].color[ch] IN
            2 * mg_frame[ch] \in (sum - 2)..sum

\* the pulls with the caller's FrameId that the last pull issued to input k
PullsOf(k) == {n \in 1..Len(mg_pulls) : mg_pulls[n] = [input |-> k, id |-> mg_id]}

\* the last call of provide_video_frame on the node has begun and ended,
\* by a return or by a panic
MergeCalled == mg_pc \in {"built", "panicked"} /\ mg_pulls # <<>>

\* C27: on every pull of a Merge that was constructed successfully with N
\* inputs, the pull returns and each of the N inputs was pulled exactly
\* once with the caller's FrameId, whatever the length of the accepted
\* contributions option.  Violated: the loop stops with the shorter of
\* inputs and contributions.
C27_EveryInputPulledOnce ==
    MergeCalled =>
        /\ mg_pc = "built"
        /\ \A k \in 1..Len(mg_inputs) : Cardinality(PullsOf(k)) = 1
        /\ \A n \in 1..Len(mg_pulls) : mg_pulls[n].id = mg_id

\* what does hold: the same when there are at least N contributions
C27_EveryInputPulledOnceGivenEnoughWeights ==
    (MergeCalled /\ Len(mg_contributions) >= Len(mg_inputs)) =>
        /\ mg_pc = "built"
        /\ \A k \in 1..Len(mg_inputs) : Cardinality(PullsOf(k)) = 1
        /\ \A n \in 1..Len(mg_pulls) : mg_pulls[n].id = mg_id

\* C35: in a Merge pull with more than one input the scratch frame handed
\* to each input after the first is cleared, all zero, when that input is
\* pulled.
C35_ScratchClearedBeforeEachPull ==
    MergePulled => \A n \in 2..Len(mg_handed) : mg_handed[n] = Black

\* what holds: the third and later inputs are handed a cleared frame, and
\* so is the second when the first input's scaled rendering is all zero
C35_ScratchClearedFromThirdInput ==
    MergePulled =>
        /\ Len(mg_handed) = Len(mg_pulls)
        /\ \A n \in 3..Len(mg_handed) : mg_handed[n] = Black
        /\ (mg_inputs[1].covers /\ mg_inputs[1].color = Black)
              => \A n \in 2..Len(mg_handed) : mg_handed[n] = Black

----------------------------------------------------------------------------
(* SpectrumNode::provide_spectrum and the locks it takes *)
(* (processors/spectrum.rs, util/spectrum.rs, util/audio.rs) *)

\* the threads of two sinks that pull the node
SpectrumPullers == {"s1", "s2"}

\* the thread on which the stream's data callback runs (device.rs:21-23)
CaptureThread == "capture"

SpectrumThreads == SpectrumPullers \cup {CaptureThread}

SpectrumIds == 0..1

\* the callers hold clones of the node's NodeRef, whose methods borrow the
\* cell (pipeline.rs:81-95), or share the node itself, whose provide
\* method takes &self (processors/spectrum.rs:54, average.rs:38)
AccessPaths == {"NodeRef", "shared"}

SpectrumIdle ==
    /\ sn_audio_lock = "free"
    /\ sn_store_lock = "free"
    /\ sn_pc = [t \in SpectrumThreads |-> "off"]
    /\ sn_id = [t \in SpectrumPullers |-> 0]
    /\ sn_last_id = LastFrameIdDefault
    /\ sn_access = "NodeRef"
    /\ sn_cell = "free"

\* audio.rs:17-28 and util/spectrum.rs:42-48: both mutexes start unlocked
SpectrumInit ==
    /\ sn_audio_lock = "free"
    /\ sn_store_lock = "free"
    /\ sn_pc = [t \in SpectrumThreads |-> "idle"]
    /\ sn_id = [t \in SpectrumPullers |-> 0]
    /\ sn_last_id = LastFrameIdDefault
    /\ sn_access \in AccessPaths
    /\ sn_cell = "free"

\* pipeline.rs:89-91: through a NodeRef the call borrows the cell mutably
\* and panics when it is borrowed; processors/spectrum.rs:54-55:
\* provide_spectrum is called and gets the device's AudioBuffer handle
\* (device.rs:49-51)
SnCall(t) ==
    /\ sn_pc[t] = "idle"
    /\ \E id \in SpectrumIds : sn_id' = [sn_id EXCEPT ![t] = id]
    /\ IF sn_access = "NodeRef" /\ sn_cell # "free"
       THEN /\ sn_pc' = [sn_pc EXCEPT ![t] = "panicked"]
            /\ sn_cell' = sn_cell
       ELSE /\ sn_pc' = [sn_pc EXCEPT ![t] = "exact"]
            /\ sn_cell' = IF sn_access = "NodeRef" THEN t ELSE sn_cell
    /\ UNCHANGED <<sn_audio_lock, sn_store_lock, sn_last_id, sn_access>>
    /\ UNCHANGED notSpectrum

\* processors/spectrum.rs:58 and audio.rs:60-65: data.exact(..) locks the
\* buffer and returns the guard, a temporary of the call expression
SnExact(t) ==
    /\ sn_pc[t] = "exact"
    /\ sn_audio_lock = "free"
    /\ sn_audio_lock' = t
    /\ sn_pc' = [sn_pc EXCEPT ![t] = "compute"]
    /\ UNCHANGED <<sn_store_lock, sn_id, sn_last_id, sn_access, sn_cell>>
    /\ UNCHANGED notSpectrum

\* util/spectrum.rs:52: SpectrumStore::compute locks the transform
SnLockStore(t) ==
    /\ sn_pc[t] = "compute"
    /\ sn_store_lock = "free"
    /\ sn_store_lock' = t
    /\ sn_pc' = [sn_pc EXCEPT ![t] = "locked"]
    /\ UNCHANGED <<sn_audio_lock, sn_id, sn_last_id, sn_access, sn_cell>>
    /\ UNCHANGED notSpectrum

\* util/spectrum.rs:53-57: a new id selects the transform, a repeated one
\* the stored output
SnStoreIfNotEq(t) ==
    /\ sn_pc[t] = "locked"
    /\ sn_last_id' = sn_id[t]
    /\ sn_pc' = [sn_pc EXCEPT ![t] = IF sn_last_id # sn_id[t]
                                     THEN "transform" ELSE "get"]
    /\ UNCHANGED <<sn_audio_lock, sn_store_lock, sn_id, sn_access, sn_cell>>
    /\ UNCHANGED notSpectrum

\* util/spectrum.rs:54 or 56, then 59-73: the transform runs, or the stored
\* output is read, and the slice is copied
SnSpectrum(t) ==
    /\ sn_pc[t] \in {"transform", "get"}
    /\ sn_pc' = [sn_pc EXCEPT ![t] = "copied"]
    /\ UNCHANGED <<sn_audio_lock, sn_store_lock, sn_id, sn_last_id, sn_access, sn_cell>>
    /\ UNCHANGED notSpectrum

\* util/spectrum.rs:74: compute returns and its guard is dropped
SnUnlockStore(t) ==
    /\ sn_pc[t] = "copied"
    /\ sn_store_lock' = "free"
    /\ sn_pc' = [sn_pc EXCEPT ![t] = "computed"]
    /\ UNCHANGED <<sn_audio_lock, sn_id, sn_last_id, sn_access, sn_cell>>
    /\ UNCHANGED notSpectrum

\* processors/spectrum.rs:60-61: the temporary AudioDataGuard is dropped
\* when the call expression has been evaluated, and on return the borrow
\* of the cell ends
SnDropGuard(t) ==
    /\ sn_pc[t] = "computed"
    /\ sn_audio_lock' = "free"
    /\ sn_cell' = IF sn_cell = t THEN "free" ELSE sn_cell
    /\ sn_pc' = [sn_pc EXCEPT ![t] = "idle"]
    /\ UNCHANGED <<sn_store_lock, sn_id, sn_last_id, sn_access>>
    /\ UNCHANGED notSpectrum

\* device.rs:21-23 and audio.rs:38-39: the data callback calls push
SnPushCall ==
    /\ sn_pc[CaptureThread] = "idle"
    /\ sn_pc' = [sn_pc EXCEPT ![CaptureThread] = "lock"]
    /\ UNCHANGED <<sn_audio_lock, sn_store_lock, sn_id, sn_last_id, sn_access, sn_cell>>
    /\ UNCHANGED notSpectrum

\* audio.rs:41
SnPushLock ==
    /\ sn_pc[CaptureThread] = "lock"
    /\ sn_audio_lock = "free"
    /\ sn_audio_lock' = CaptureThread
    /\ sn_pc' = [sn_pc EXCEPT ![CaptureThread] = "extend"]
    /\ UNCHANGED <<sn_store_lock, sn_id, sn_last_id, sn_access, sn_cell>>
    /\ UNCHANGED notSpectrum

\* audio.rs:42-51: the samples are stored and the guard is dropped
SnPushReturn ==
    /\ sn_pc[CaptureThread] = "extend"
    /\ sn_audio_lock' = "free"
    /\ sn_pc' = [sn_pc EXCEPT ![CaptureThread] = "idle"]
    /\ UNCHANGED <<sn_store_lock, sn_id, sn_last_id, sn_access, sn_cell>>
    /\ UNCHANGED notSpectrum

SpectrumNext ==
    \/ \E t \in SpectrumPullers :
          \/ SnCall(t) \/ SnExact(t) \/ SnLockStore(t) \/ SnStoreIfNotEq(t)
          \/ SnSpectrum(t) \/ SnUnlockStore(t) \/ SnDropGuard(t)
    \/ SnPushCall \/ SnPushLock \/ SnPushReturn

\* the capture thread is blocked in push by a puller's guard
PushWaitsFor(t) == sn_pc[CaptureThread] = "lock" /\ sn_audio_lock = t

\* C24: no thread holds the locks of two nodes at once: the audio
\* buffer's lock is not held when the spectrum store's lock is acquired,
\* and a push of the capture thread never waits for a transform.
\* Violated: the buffer's guard lives until compute has returned.
C24_OneLockAtATime ==
    \A t \in SpectrumPullers :
        /\ ~(sn_audio_lock = t /\ sn_store_lock = t)
        /\ sn_pc[t] = "compute" => sn_audio_lock # t
        /\ ~(PushWaitsFor(t) /\ sn_pc[t] = "transform")

\* what does hold: the two locks are always taken in the same order, the
\* store's holder holds the buffer's lock, so no thread waits for the
\* buffer while it holds the store
C24_LocksNested ==
    \A t \in SpectrumPullers :
        /\ sn_store_lock = t => sn_audio_lock = t
        /\ sn_pc[t] = "exact" => sn_store_lock # t

\* a thread is inside a pull or a push
SnActive(t) == sn_pc[t] \notin {"idle", "panicked"}

\* a thread waits for a mutex another thread holds
SnBlocked(t) ==
    \/ sn_pc[t] \in {"exact", "lock"} /\ sn_audio_lock # "free"
    \/ sn_pc[t] = "compute" /\ sn_store_lock # "free"

\* the steps of a puller inside provide_spectrum, and of the capture thread
\* inside push
SnRun(t) ==
    SnLockStore(t) \/ SnStoreIfNotEq(t) \/ SnSpectrum(t) \/ SnUnlockStore(t)
        \/ SnDropGuard(t)

\* fair scheduling: a thread that can run does, and a thread that finds a
\* mutex free again and again gets it; nobody is made to begin a call
SpectrumFairness ==
    /\ \A t \in SpectrumPullers : WF_vars(SnRun(t)) /\ SF_vars(SnExact(t))
    /\ SF_vars(SnPushLock)
    /\ WF_vars(SnPushReturn)

\* C39: for any interleaving of the capture thread's pushes and the
\* drivers' pulls the threads inside a call are never all blocked, and
\* under fair scheduling each push and each pull that began completes.
C39_EveryPushAndPullCompletes ==
    /\ [](\A t \in SpectrumThreads : SnActive(t) => \E u \in SpectrumThreads :
                                          SnActive(u) /\ ~SnBlocked(u))
    /\ \A t \in SpectrumPullers : (sn_pc[t] = "exact") ~> (sn_pc[t] = "idle")
    /\ sn_pc[CaptureThread] = "lock" ~> sn_pc[CaptureThread] = "idle"
    /\ \A t \in SpectrumPullers : [](sn_pc[t] # "panicked")

\* what holds in every state: the threads inside a call are never all
\* blocked, since the store's mutex is only taken under the buffer's
C39_NeverAllBlocked ==
    \A t \in SpectrumThreads :
        SnActive(t) => \E u \in SpectrumThreads : SnActive(u) /\ ~SnBlocked(u)

\* what holds under fair scheduling: every push completes, and so does
\* every pull that got past the borrow of the NodeRef
C39_CompletesOnceBorrowed ==
    /\ \A t \in SpectrumPullers : (sn_pc[t] = "exact") ~> (sn_pc[t] = "idle")
    /\ sn_pc[CaptureThread] = "lock" ~> sn_pc[CaptureThread] = "idle"

----------------------------------------------------------------------------
(* The need_data callback of RtspSink and the FrameId it hands down *)
(* (sinks/rtsp.rs, processors/, sources/)                           *)

\* the ticks of the sink that are followed
MaxTicks == 4

NodeOf(kind, inputs) == [kind |-> kind, inputs |-> inputs]

\* three pipelines behind a sink: a colour source alone, a merge of a colour
\* and a loudness circle, and a merge of an equalizer and a circle that
\* share one device
TickPipelines ==
    { [sink |-> NodeOf("rtsp", <<"color">>),
       color |-> NodeOf("random-color", <<>>)],
      [sink |-> NodeOf("rtsp", <<"mix">>),
       mix |-> NodeOf("merge", <<"color", "circle">>),
       color |-> NodeOf("random-color", <<>>),
       circle |-> NodeOf("circle", <<"smooth">>),
       smooth |-> NodeOf("average", <<"loud">>),
       loud |-> NodeOf("loudness", <<"mic">>),
       mic |-> NodeOf("device", <<>>)],
      [sink |-> NodeOf("rtsp", <<"mix">>),
       mix |-> NodeOf("merge", <<"bars", "circle">>),
       bars |-> NodeOf("equalizer", <<"fft">>),
       fft |-> NodeOf("spectrum", <<"mic">>),
       circle |-> NodeOf("circle", <<"loud">>),
       loud |-> NodeOf("loudness", <<"mic">>),
       mic |-> NodeOf("device", <<>>)] }

\* a node that hands its inputs an id of its own
OwnId(kind, id) == (id + 1) % UsizeModulus

\* the FrameId a node hands to its inputs: merge.rs:70 and 90, circle.rs:28,
\* equalizer.rs:29, average.rs:39, loudness.rs:27, processors/spectrum.rs:55
PassedId(kind, id) == id

\* the calls a pull of `node` with `id` makes, in order: each input is
\* called once (a Merge with one weight for each input) and makes its own
RECURSIVE CallsOf(_, _, _, _)
CallsOf(nodes, node, k, id) ==
    LET inputs == nodes[node].inputs IN
    IF k > Len(inputs) THEN <<>>
    ELSE LET passed == PassedId(nodes[node].kind, id) IN
         <<[from |-> node, to |-> inputs[k], id |-> passed]>>
             \o CallsOf(nodes, inputs[k], 1, passed)
             \o CallsOf(nodes, node, k + 1, id)

\* a counter that stands still when the push fails
StallsOnFailure(i, pushed) == IF pushed THEN i + 1 ELSE i

\* rtsp.rs:122-123: the result of push_buffer is dropped, then i += 1
AdvanceTick(i, pushed) == i + 1

TickIdle ==
    /\ tk_pipeline = <<>>
    /\ tk_pc = "off"
    /\ tk_i = 0
    /\ tk_counter = FrameIdCounterStart
    /\ tk_frame = "clear"
    /\ tk_log = <<>>

\* rtsp.rs:106-108: a zeroed frame and i = 0; util.rs:64
TickInit ==
    /\ tk_pipeline \in TickPipelines
    /\ tk_pc = "idle"
    /\ tk_i = 0
    /\ tk_counter = FrameIdCounterStart
    /\ tk_frame = "clear"
    /\ tk_log = <<>>

\* rtsp.rs:111-112: need_data is called and clears the frame
TkClear ==
    /\ tk_pc = "idle"
    /\ tk_i < MaxTicks
    /\ tk_frame' = "clear"
    /\ tk_pc' = "cleared"
    /\ UNCHANGED <<tk_pipeline, tk_i, tk_counter, tk_log>>
    /\ UNCHANGED notTick

\* rtsp.rs:113: FrameId::new() (util.rs:32-34, 66-68), then the pull of the
\* sink's input and of everything behind it
TkPull ==
    /\ tk_pc = "cleared"
    /\ LET id == FetchAdd(tk_counter)
           input == tk_pipeline["sink"].inputs[1] IN
       tk_log' = Append(tk_log,
                    [i |-> tk_i, id |-> id, frame |-> tk_frame,
                     calls |-> <<[from |-> "sink", to |-> input, id |-> id]>>
                                   \o CallsOf(tk_pipeline, input, 1, id),
                     pushed |-> "pending"])
    /\ tk_counter' = WrappingInc(tk_counter)
    /\ tk_frame' = "drawn"
    /\ tk_pc' = "pulled"
    /\ UNCHANGED <<tk_pipeline, tk_i>>
    /\ UNCHANGED notTick

\* rtsp.rs:115-123: the frame is copied into a buffer, the buffer is pushed,
\* the push succeeds or fails, and the callback returns
TkPushBuffer ==
    /\ tk_pc = "pulled"
    /\ \E pushed \in BOOLEAN :
          /\ tk_log' = [tk_log EXCEPT ![Len(tk_log)].pushed =
                           IF pushed THEN "ok" ELSE "failed"]
          /\ tk_i' = AdvanceTick(tk_i, pushed)
    /\ tk_pc' = "idle"
    /\ UNCHANGED <<tk_pipeline, tk_counter, tk_frame>>
    /\ UNCHANGED notTick

TickNext == TkClear \/ TkPull \/ TkPushBuffer

\* the nodes behind the sink
BehindSink == DOMAIN tk_pipeline \ {"sink"}

\* the calls of tick n that the sink itself made
SinkCalls(n) == {c \in 1..Len(tk_log[n].calls) : tk_log[n].calls[c].from = "sink"}

\* C25: on every tick the frame is cleared, exactly one new FrameId is
\* minted, exactly one pull is issued to the sink's input with it, and
\* every node reached during the pull receives that FrameId; a failed push
\* stops no later tick, and the tick counter advances all the same.
C25_OnePullPerTickOneIdThroughout ==
    /\ \A n \in 1..Len(tk_log) :
          /\ tk_log[n].frame = "clear"
          /\ tk_log[n].i = n - 1
          /\ \A m \in 1..Len(tk_log) : m # n => tk_log[m].id # tk_log[n].id
          /\ Cardinality(SinkCalls(n)) = 1
          /\ tk_log[n].calls[1].to = tk_pipeline["sink"].inputs[1]
          /\ \A c \in 1..Len(tk_log[n].calls) : tk_log[n].calls[c].id = tk_log[n].id
          /\ \A node \in BehindSink :
                \E c \in 1..Len(tk_log[n].calls) : tk_log[n].calls[c].to = node
    /\ tk_counter = Len(tk_log) % UsizeModulus
    /\ tk_pc = "idle" => tk_i = Len(tk_log)
    /\ (tk_pc = "idle" /\ tk_i < MaxTicks) => ENABLED TkClear

\* a tick whose push failed was followed by another tick that pulled a
\* merge, a device reached twice included
C25_Witness ==
    /\ Len(tk_log) >= 2
    /\ tk_log[1].pushed = "failed"
    /\ tk_pc = "idle"
    /\ "fft" \in DOMAIN tk_pipeline
    /\ Len(tk_log[2].calls) = 7

----------------------------------------------------------------------------
(* DeviceSource, StreamHandle and the stream manager thread (sources/device.rs) *)

\* the handles (clones of the NodeRef) one device source may have
MaxRefs == 2

Devices == {"d1", "d2"}

StreamIdsUsed == 0..(Cardinality(Devices) - 1)

NoStream == Cardinality(Devices)

\* a teardown that lets go of the stream before it pauses it
DropThenPause == <<"Drop", "Pause">>

\* device.rs:38-42 and 170-174: Drop for DeviceSource runs, then the field
\* `stream` is dropped and Drop for StreamHandle runs
TeardownCommands == <<"Pause", "Drop">>

\* device.rs:184-189: an Output; `id` matters in Output::Stream only
Reply(output) == [output |-> output, id |-> NoStream]

StreamReply(id) == [output |-> "Stream", id |-> id]

NoReply == Reply("none")

Command(cmd, id, from) == [cmd |-> cmd, id |-> id, from |-> from]

\* the last two entries of a tail after one more command
Tailed(tail, cmd) == IF Len(tail) < 2 THEN Append(tail, cmd) ELSE <<tail[2], cmd>>

StreamsIdle ==
    /\ sm_queue = <<>>
    /\ sm_streams = {}
    /\ sm_counter = 0
    /\ sm_pc = "off"
    /\ sm_reply = [d \in Devices |-> NoReply]
    /\ sm_tail = [id \in StreamIdsUsed |-> <<>>]
    /\ dv_pc = [d \in Devices |-> "off"]
    /\ dv_id = [d \in Devices |-> NoStream]
    /\ dv_refs = [d \in Devices |-> 0]
    /\ dv_sent = [d \in Devices |-> <<>>]

\* device.rs:98-104: an empty channel, an empty map and counter 0
StreamsInit ==
    /\ sm_queue = <<>>
    /\ sm_streams = {}
    /\ sm_counter = 0
    /\ sm_pc = "running"
    /\ sm_reply = [d \in Devices |-> NoReply]
    /\ sm_tail = [id \in StreamIdsUsed |-> <<>>]
    /\ dv_pc = [d \in Devices |-> "none"]
    /\ dv_id = [d \in Devices |-> NoStream]
    /\ dv_refs = [d \in Devices |-> 0]
    /\ dv_sent = [d \in Devices |-> <<>>]

\* device.rs:213-220: send_command puts the command on the channel and
\* then waits for the reply; on a channel whose receiver is gone the send
\* fails and the result is Err(System)
SendCommand(d, cmd, next_pc, replies) ==
    /\ dv_pc' = [dv_pc EXCEPT ![d] = next_pc]
    /\ IF sm_pc = "running"
       THEN /\ sm_queue' = Append(sm_queue, Command(cmd, dv_id[d], d))
            /\ sm_reply' = replies
       ELSE /\ sm_queue' = sm_queue
            /\ sm_reply' = [replies EXCEPT ![d] = Reply("Error")]

\* the replies once d has taken its own
Taken(d) == [sm_reply EXCEPT ![d] = NoReply]

\* device.rs:13-16: DeviceSource::new asks for the sample rate
DvGetSampleRate(d) ==
    /\ dv_pc[d] = "none"
    /\ SendCommand(d, "GetSampleRate", "rate", sm_reply)
    /\ UNCHANGED <<sm_streams, sm_counter, sm_pc, sm_tail, dv_id, dv_refs, dv_sent>>
    /\ UNCHANGED notStreams

\* device.rs:16-24 and 222-227: without a sample rate new returns
\* Err(System), with one it asks for a stream
DvBuild(d) ==
    /\ dv_pc[d] = "rate"
    /\ sm_reply[d] # NoReply
    /\ IF sm_reply[d].output = "SampleRate"
       THEN SendCommand(d, "Build", "build", Taken(d))
       ELSE /\ dv_pc' = [dv_pc EXCEPT ![d] = "failed"]
            /\ sm_reply' = Taken(d)
            /\ sm_queue' = sm_queue
    /\ UNCHANGED <<sm_streams, sm_counter, sm_pc, sm_tail, dv_id, dv_refs, dv_sent>>
    /\ UNCHANGED notStreams

\* device.rs:24-26 and 229-237: the handle in the reply becomes the
\* source's `stream` and the node gets its first handle (70)
DvBuilt(d) ==
    /\ dv_pc[d] = "build"
    /\ sm_reply[d] # NoReply
    /\ IF sm_reply[d].output = "Stream"
       THEN /\ dv_pc' = [dv_pc EXCEPT ![d] = "alive"]
            /\ dv_id' = [dv_id EXCEPT ![d] = sm_reply[d].id]
            /\ dv_refs' = [dv_refs EXCEPT ![d] = 1]
       ELSE /\ dv_pc' = [dv_pc EXCEPT ![d] = "failed"]
            /\ UNCHANGED <<dv_id, dv_refs>>
    /\ sm_reply' = Taken(d)
    /\ UNCHANGED <<sm_queue, sm_streams, sm_counter, sm_pc, sm_tail, dv_sent>>
    /\ UNCHANGED notStreams

\* pipeline.rs:59-96: a NodeRef is cloned (load.rs hands one to each node
\* that names the source as an input)
DvCloneRef(d) ==
    /\ dv_pc[d] = "alive"
    /\ dv_refs[d] < MaxRefs
    /\ dv_refs' = [dv_refs EXCEPT ![d] = dv_refs[d] + 1]
    /\ UNCHANGED <<sm_queue, sm_streams, sm_counter, sm_pc, sm_reply, sm_tail,
                   dv_pc, dv_id, dv_sent>>
    /\ UNCHANGED notStreams

\* device.rs:29-35 and 239-251: play or pause on the living source
DvPlayOrPause(d) ==
    /\ dv_pc[d] = "alive"
    /\ \E cmd \in {"Play", "Pause"} : SendCommand(d, cmd, "waiting", sm_reply)
    /\ UNCHANGED <<sm_streams, sm_counter, sm_pc, sm_tail, dv_id, dv_refs, dv_sent>>
    /\ UNCHANGED notStreams

\* device.rs:219: the reply to play or pause arrives
DvReplied(d) ==
    /\ dv_pc[d] = "waiting"
    /\ sm_reply[d] # NoReply
    /\ dv_pc' = [dv_pc EXCEPT ![d] = "alive"]
    /\ sm_reply' = Taken(d)
    /\ UNCHANGED <<sm_queue, sm_streams, sm_counter, sm_pc, sm_tail, dv_id,
                   dv_refs, dv_sent>>
    /\ UNCHANGED notStreams

\* a handle is dropped; the drop of the last one drops the DeviceSource,
\* whose teardown sends its first command (device.rs:38-42)
DvDropRef(d) ==
    /\ dv_pc[d] = "alive"
    /\ dv_refs' = [dv_refs EXCEPT ![d] = dv_refs[d] - 1]
    /\ IF dv_refs[d] = 1
       THEN /\ SendCommand(d, TeardownCommands[1], "teardown", sm_reply)
            /\ dv_sent' = [dv_sent EXCEPT ![d] = <<TeardownCommands[1]>>]
       ELSE UNCHANGED <<dv_pc, sm_queue, sm_reply, dv_sent>>
    /\ UNCHANGED <<sm_streams, sm_counter, sm_pc, sm_tail, dv_id>>
    /\ UNCHANGED notStreams

\* device.rs:40 and 170-174: the reply is discarded, whatever it is, and
\* the drop of the field `stream` sends the second command
DvDropHandle(d) ==
    /\ dv_pc[d] = "teardown"
    /\ sm_reply[d] # NoReply
    /\ SendCommand(d, TeardownCommands[2], "dropping", Taken(d))
    /\ dv_sent' = [dv_sent EXCEPT ![d] = Append(dv_sent[d], TeardownCommands[2])]
    /\ UNCHANGED <<sm_streams, sm_counter, sm_pc, sm_tail, dv_id, dv_refs>>
    /\ UNCHANGED notStreams

\* device.rs:172: the reply is discarded and the source is gone
DvGone(d) ==
    /\ dv_pc[d] = "dropping"
    /\ sm_reply[d] # NoReply
    /\ dv_pc' = [dv_pc EXCEPT ![d] = "gone"]
    /\ sm_reply' = Taken(d)
    /\ UNCHANGED <<sm_queue, sm_streams, sm_counter, sm_pc, sm_tail, dv_id,
                   dv_refs, dv_sent>>
    /\ UNCHANGED notStreams

\* device.rs:106-151: the manager takes the oldest command, carries it out
\* and answers its sender.  The platform decides whether a sample rate is
\* found, a stream can be built, a stream plays or pauses.  A Play, Pause
\* or Drop for an id the map does not hold panics in expect (125, 134,
\* 143): the thread ends, and every sender that waits gets Err(System).
Manage ==
    /\ sm_pc = "running"
    /\ sm_queue # <<>>
    /\ LET command == Head(sm_queue)
           cmd == command.cmd
           id == command.id
           from == command.from IN
       \/ /\ cmd = "GetSampleRate"
          /\ \E output \in {"SampleRate", "Error"} :
                sm_reply' = [sm_reply EXCEPT ![from] = Reply(output)]
          /\ sm_queue' = Tail(sm_queue)
          /\ UNCHANGED <<sm_streams, sm_counter, sm_pc, sm_tail>>
       \/ /\ cmd = "Build"
          /\ \/ /\ sm_streams' = sm_streams \cup {sm_counter}
                /\ sm_counter' = sm_counter + 1
                /\ sm_reply' = [sm_reply EXCEPT ![from] = StreamReply(sm_counter)]
             \/ /\ sm_reply' = [sm_reply EXCEPT ![from] = Reply("Error")]
                /\ UNCHANGED <<sm_streams, sm_counter>>
          /\ sm_queue' = Tail(sm_queue)
          /\ UNCHANGED <<sm_pc, sm_tail>>
       \/ /\ cmd \in {"Play", "Pause", "Drop"}
          /\ id \in sm_streams
          /\ \E output \in IF cmd = "Drop" THEN {"Success"} ELSE {"Success", "Error"} :
                sm_reply' = [sm_reply EXCEPT ![from] = Reply(output)]
          /\ sm_streams' = IF cmd = "Drop" THEN sm_streams \ {id} ELSE sm_streams
          /\ sm_tail' = [sm_tail EXCEPT ![id] = Tailed(sm_tail[id], cmd)]
          /\ sm_queue' = Tail(sm_queue)
          /\ UNCHANGED <<sm_counter, sm_pc>>
       \/ /\ cmd \in {"Play", "Pause", "Drop"}
          /\ id \notin sm_streams
          /\ sm_pc' = "panicked"
          /\ sm_queue' = <<>>
          /\ sm_reply' = [d \in Devices |->
                            IF \E n \in 1..Len(sm_queue) : sm_queue[n].from = d
                            THEN Reply("Error") ELSE sm_reply[d]]
          /\ UNCHANGED <<sm_streams, sm_counter, sm_tail>>
    /\ UNCHANGED <<dv_pc, dv_id, dv_refs, dv_sent>>
    /\ UNCHANGED notStreams

StreamsNext ==
    \/ \E d \in Devices :
          \/ DvGetSampleRate(d) \/ DvBuild(d) \/ DvBuilt(d) \/ DvCloneRef(d)
          \/ DvPlayOrPause(d) \/ DvReplied(d) \/ DvDropRef(d)
          \/ DvDropHandle(d) \/ DvGone(d)
    \/ Manage

\* C26: when the last handle of a device source is dropped, a Pause and
\* then a Drop for its stream id are sent, in that order, and processed in
\* that order as the last commands for the id; afterwards the manager holds
\* no stream under the id; and the manager never processes a Play, Pause
\* or Drop for an id it does not hold.
C26_PauseThenDropOnLastHandle ==
    /\ sm_pc # "panicked"
    /\ \A d \in Devices :
          /\ dv_pc[d] \in {"teardown", "dropping", "gone"} =>
                /\ dv_refs[d] = 0
                /\ dv_sent[d][1] = "Pause"
          /\ dv_pc[d] = "alive" => (dv_refs[d] > 0 /\ dv_id[d] \in sm_streams)
          /\ dv_pc[d] = "gone" =>
                /\ dv_sent[d] = <<"Pause", "Drop">>
                /\ sm_tail[dv_id[d]] = <<"Pause", "Drop">>
                /\ dv_id[d] \notin sm_streams
          /\ \A n \in 1..Len(sm_queue) :
                sm_queue[n].cmd \in {"Play", "Pause", "Drop"} =>
                    sm_queue[n].id \in sm_streams

\* one source is gone after it had two handles, and the other one is
\* alive with its stream
C26_Witness ==
    /\ dv_pc["d1"] = "gone"
    /\ dv_pc["d2"] = "alive"
    /\ dv_refs["d2"] = 2
    /\ dv_id["d1"] = 0
    /\ sm_streams = {1}
    /\ sm_tail[1] # <<>>

----------------------------------------------------------------------------
(* Spectrum::bin_for and Spectrum::freq on a sliced view (util/spectrum.rs) *)

\* the highest frequency of a range, in Hz
MaxFrequency == 5

\* the lengths of the transform's output
OrigLens == {3, 5}

SampleRates == {4, 8}

\* an f32 frequency num / den
Hz(num, den) == [num |-> num, den |-> den]

\* util/spectrum.rs:37-40: the ranges new_inner accepts
FrequencyRanges ==
    {r \in (1..MaxFrequency) \X (1..MaxFrequency) : r[1] < r[2]}

\* util/spectrum.rs:119-123: bin_for, (f * n / sr).round() as usize
BinFor(full_spectrum_size, f, sample_rate) ==
    RoundToUsize(f.num * full_spectrum_size, f.den * sample_rate)

\* util/spectrum.rs:125-127: freq, bin * sr / n
Freq(full_spectrum_size, bin, sample_rate) ==
    Hz(bin * sample_rate, full_spectrum_size)

\* util/spectrum.rs:102: (f_min..=f_max).contains(&f)
InRange(f, f_min, f_max) ==
    /\ f_min * f.den <= f.num
    /\ f.num <= f_max * f.den

\* util/spectrum.rs:61
Bin0(store) == BinFor(store.orig_len, Hz(store.f_min, 1), store.sample_rate)

\* util/spectrum.rs:62: the end of the slice
BinEnd(store) == BinFor(store.orig_len, Hz(store.f_max, 1), store.sample_rate)

\* util/spectrum.rs:62: slicing beyond the output's length panics
SlicePanics(store) == BinEnd(store) > store.orig_len

NoSpectrum == [bin0 |-> 0, len |-> 0]

NoBinCall == [b |-> 0, freq |-> Hz(0, 1), outcome |-> "none", bin |-> 0]

NoIndex == [x |-> 0, bin |-> 0, outcome |-> "none"]

BinsIdle ==
    /\ bn_store = [orig_len |-> 0, sample_rate |-> 0, f_min |-> 0, f_max |-> 0]
    /\ bn_pc = "off"
    /\ bn_spectrum = NoSpectrum
    /\ bn_call = NoBinCall
    /\ bn_index = NoIndex

\* util/spectrum.rs:33-49: a store with a frequency range
BinsInit ==
    /\ \E n \in OrigLens, sr \in SampleRates, r \in FrequencyRanges :
          bn_store = [orig_len |-> n, sample_rate |-> sr,
                      f_min |-> r[1], f_max |-> r[2]]
    /\ bn_pc = "new"
    /\ bn_spectrum = NoSpectrum
    /\ bn_call = NoBinCall
    /\ bn_index = NoIndex

\* util/spectrum.rs:59-73: the view spectrum[bin0..bin_for(f_max)]
BnCompute ==
    /\ bn_pc = "new"
    /\ IF SlicePanics(bn_store)
       THEN /\ bn_pc' = "panicked"
            /\ bn_spectrum' = bn_spectrum
       ELSE /\ bn_pc' = "computed"
            /\ bn_spectrum' = [bin0 |-> Bin0(bn_store),
                               len |-> BinEnd(bn_store) - Bin0(bn_store)]
    /\ UNCHANGED <<bn_store, bn_call, bn_index>>
    /\ UNCHANGED notBins

\* util/spectrum.rs:100-108: freq(b) for an index b of the view, then
\* bin_for of that frequency
BnFreqThenBinFor ==
    /\ bn_pc = "computed"
    /\ \E b \in 0..(bn_spectrum.len - 1) :
          LET f == Freq(bn_store.orig_len, bn_spectrum.bin0 + b,
                        bn_store.sample_rate) IN
          bn_call' =
             IF InRange(f, bn_store.f_min, bn_store.f_max)
             THEN [b |-> b, freq |-> f, outcome |-> "returned",
                   bin |-> BinFor(bn_store.orig_len, f, bn_store.sample_rate)
                               - bn_spectrum.bin0]
             ELSE [b |-> b, freq |-> f, outcome |-> "panicked", bin |-> 0]
    /\ UNCHANGED <<bn_store, bn_pc, bn_spectrum, bn_index>>
    /\ UNCHANGED notBins

\* the view as the Equalizer sees it: so many bins, whatever they hold
ViewOf(spectrum) == [k \in 1..spectrum.len |-> 0]

\* equalizer.rs:29-36: an Equalizer pulls the Spectrum and reads
\* spectrum[x / bin_width] for a column x of its frame
BnEqualizerIndex ==
    /\ bn_pc = "computed"
    /\ \E x \in Columns :
          bn_index' =
             [x |-> x, bin |-> BinOf(x, ViewOf(bn_spectrum)),
              outcome |-> IF IndexPanics(x, ViewOf(bn_spectrum))
                          THEN "panicked" ELSE "returned"]
    /\ UNCHANGED <<bn_store, bn_pc, bn_spectrum, bn_call>>
    /\ UNCHANGED notBins

BinsNext == BnCompute \/ BnFreqThenBinFor \/ BnEqualizerIndex

\* C28: for every Spectrum of a store with a frequency range and every
\* index b of its view, freq(b) is the frequency of original bin bin0 + b,
\* bin_for(freq(b)) returns b without failing its range assertion, and the
\* view has bin(f_max) - bin(f_min) entries.  Violated: bin0 is rounded to
\* the nearest bin, whose frequency may lie below f_min.
C28_BinForInvertsFreq ==
    /\ bn_pc = "computed" =>
          bn_spectrum.len = BinEnd(bn_store) - Bin0(bn_store)
    /\ bn_call.outcome # "none" =>
          /\ bn_call.freq.num =
                (Bin0(bn_store) + bn_call.b) * bn_store.sample_rate
          /\ bn_call.freq.den = bn_store.orig_len
          /\ bn_call.outcome = "returned"
          /\ bn_call.bin = bn_call.b

\* what does hold: the length of the view, the frequency of each index, and
\* the round trip wherever bin_for accepts the frequency
C28_BinForInvertsFreqWhereAccepted ==
    /\ bn_pc = "computed" =>
          bn_spectrum.len = BinEnd(bn_store) - Bin0(bn_store)
    /\ bn_call.outcome # "none" =>
          /\ bn_call.freq.num =
                (Bin0(bn_store) + bn_call.b) * bn_store.sample_rate
          /\ bn_call.freq.den = bn_store.orig_len
          /\ bn_call.outcome = "returned" => bn_call.bin = bn_call.b

\* C36: for every Spectrum a spectrum node with an accepted frequency range
\* returns and every pixel column x of the frame, the Equalizer's bin index
\* x / bin_width is a valid index into that Spectrum.
C36_BinIndexWithinSpectrum ==
    bn_index.outcome # "none" =>
        /\ bn_index.bin < bn_spectrum.len
        /\ bn_index.outcome = "returned"

\* what holds: the index is valid whenever the view has at least one bin,
\* be they fewer or more than the frame has columns
C36_BinIndexWithinNonEmptySpectrum ==
    (bn_index.outcome # "none" /\ bn_spectrum.len > 0) =>
        /\ bn_index.bin < bn_spectrum.len
        /\ bn_index.outcome = "returned"

----------------------------------------------------------------------------
(* Average::provide_number under concurrent calls (processors/average.rs, *)
(* util/misc.rs, pipeline.rs)                                             *)

\* the calls one thread makes
MaxAverageCalls == 1

AverageCallers == {"t1", "t2"}

\* what the input returns: 0.0, 0.5 and 1.0
InputNumbers == {Finite(0), Finite(Scale \div 2), Finite(Scale)}

AverageIdle ==
    /\ av_access = "NodeRef"
    /\ av_cell = "free"
    /\ av_factor = 0
    /\ av_stored = AverageStart
    /\ av_pc = [t \in AverageCallers |-> "off"]
    /\ av_current = [t \in AverageCallers |-> Finite(0)]
    /\ av_previous = [t \in AverageCallers |-> Finite(0)]
    /\ av_calls = [t \in AverageCallers |-> 0]
    /\ av_applied = <<>>

\* average.rs:16-30: alpha from the options, the average at 0.0
AverageInit ==
    /\ av_access \in AccessPaths
    /\ av_cell = "free"
    /\ av_factor \in 0..AlphaDen
    /\ av_stored = AverageStart
    /\ av_pc = [t \in AverageCallers |-> "idle"]
    /\ av_current = [t \in AverageCallers |-> Finite(0)]
    /\ av_previous = [t \in AverageCallers |-> Finite(0)]
    /\ av_calls = [t \in AverageCallers |-> 0]
    /\ av_applied = <<>>

\* pipeline.rs:93-95: through a NodeRef the call borrows the cell mutably
\* and panics when it is borrowed; average.rs:38: by &self it just begins
AvCall(t) ==
    /\ av_pc[t] = "idle"
    /\ av_calls[t] < MaxAverageCalls
    /\ av_calls' = [av_calls EXCEPT ![t] = av_calls[t] + 1]
    /\ IF av_access = "NodeRef" /\ av_cell # "free"
       THEN /\ av_pc' = [av_pc EXCEPT ![t] = "panicked"]
            /\ av_cell' = av_cell
       ELSE /\ av_pc' = [av_pc EXCEPT ![t] = "input"]
            /\ av_cell' = IF av_access = "NodeRef" THEN t ELSE av_cell
    /\ UNCHANGED <<av_access, av_factor, av_stored, av_current, av_previous,
                   av_applied>>
    /\ UNCHANGED notAverage

\* average.rs:39: the input is pulled
AvInput(t) ==
    /\ av_pc[t] = "input"
    /\ \E current \in InputNumbers :
          av_current' = [av_current EXCEPT ![t] = current]
    /\ av_pc' = [av_pc EXCEPT ![t] = "load"]
    /\ UNCHANGED <<av_access, av_cell, av_factor, av_stored, av_previous,
                   av_calls, av_applied>>
    /\ UNCHANGED notAverage

\* average.rs:40 and misc.rs:11-13: the stored average is loaded
AvLoad(t) ==
    /\ av_pc[t] = "load"
    /\ av_previous' = [av_previous EXCEPT ![t] = av_stored]
    /\ av_pc' = [av_pc EXCEPT ![t] = "store"]
    /\ UNCHANGED <<av_access, av_cell, av_factor, av_stored, av_current,
                   av_calls, av_applied>>
    /\ UNCHANGED notAverage

\* average.rs:41-43 and misc.rs:15-17: the new average is computed from the
\* loaded one, stored and returned; the borrow of the cell ends
AvStore(t) ==
    /\ av_pc[t] = "store"
    /\ av_stored' = Smooth(av_factor, av_current[t], av_previous[t])
    /\ av_applied' = Append(av_applied, av_current[t])
    /\ av_cell' = IF av_cell = t THEN "free" ELSE av_cell
    /\ av_pc' = [av_pc EXCEPT ![t] = "idle"]
    /\ UNCHANGED <<av_access, av_factor, av_current, av_previous, av_calls>>
    /\ UNCHANGED notAverage

AverageNext ==
    \E t \in AverageCallers : AvCall(t) \/ AvInput(t) \/ AvLoad(t) \/ AvStore(t)

\* the average after the updates of `currents` were applied in `order`
RECURSIVE AppliedInOrder(_, _, _)
AppliedInOrder(currents, order, k) ==
    IF k = 0 THEN AverageStart
    ELSE Smooth(av_factor, currents[order[k]],
                AppliedInOrder(currents, order, k - 1))

\* the averages the returned calls give one after another, in every order
SerialAverages ==
    {AppliedInOrder(av_applied, order, Len(av_applied)) :
        order \in Perms(1..Len(av_applied))}

AllReturned == \A t \in AverageCallers : av_pc[t] \in {"idle", "panicked"}

NonePanicked == \A t \in AverageCallers : av_pc[t] # "panicked"

\* C30: concurrent provide_number calls on one Average take effect
\* atomically: once they have all returned, the stored average is what
\* their updates give one after another in some order, so no update is
\* lost.  Violated: the load and the store are two separate operations.
C30_UpdatesAtomic ==
    (AllReturned /\ NonePanicked) => av_stored \in SerialAverages

\* what does hold: calls that go through the NodeRef never overlap, and
\* those that return give the serial result
C30_SerialWhenNotOverlapping ==
    (AllReturned /\ av_access = "NodeRef") => av_stored \in SerialAverages

----------------------------------------------------------------------------
(* FrameCounter::fetch_inc under concurrent calls (util/misc.rs) *)

\* the calls of fetch_inc the model follows
MaxFetches == 4

\* the threads that share the counter (&self)
CounterCallers == {"c1", "c2"}

CounterIdle ==
    /\ fc_counter = FrameCounterStart
    /\ fc_modulo = 1
    /\ fc_pc = [t \in CounterCallers |-> "off"]
    /\ fc_value = [t \in CounterCallers |-> 0]
    /\ fc_returns = <<>>

\* misc.rs:27-33: FrameCounter::new asserts modulo > 0 and starts at zero
CounterInit ==
    /\ fc_counter = FrameCounterStart
    /\ fc_modulo \in 1..MaxModulo
    /\ fc_pc = [t \in CounterCallers |-> "idle"]
    /\ fc_value = [t \in CounterCallers |-> 0]
    /\ fc_returns = <<>>

\* misc.rs:36: let value = self.counter.fetch_add(1, order)
FcFetchAdd(t) ==
    /\ fc_pc[t] = "idle"
    /\ Len(fc_returns) < MaxFetches
    /\ fc_value' = [fc_value EXCEPT ![t] = fc_counter]
    /\ fc_counter' = (fc_counter + 1) % UsizeModulus
    /\ fc_returns' = Append(fc_returns, [caller |-> t, value |-> fc_counter])
    /\ fc_pc' = [fc_pc EXCEPT ![t] = "wrap"]
    /\ UNCHANGED fc_modulo
    /\ UNCHANGED notCounter

\* misc.rs:38-42: the counter is stored back to zero when value + 1 is the
\* modulo, and value is returned
FcWrap(t) ==
    /\ fc_pc[t] = "wrap"
    /\ fc_counter' = IF fc_value[t] + 1 = fc_modulo THEN 0 ELSE fc_counter
    /\ fc_pc' = [fc_pc EXCEPT ![t] = "idle"]
    /\ fc_value' = [fc_value EXCEPT ![t] = 0]
    /\ UNCHANGED <<fc_modulo, fc_returns>>
    /\ UNCHANGED notCounter

CounterNext ==
    \E t \in CounterCallers : FcFetchAdd(t) \/ FcWrap(t)

\* the calls whose answers are fc_returns[n], ..., fc_returns[n + modulo - 1]
ZerosFrom(n) ==
    Cardinality({k \in n..(n + fc_modulo - 1) : fc_returns[k].value = 0})

\* C31: under any interleaving of callers fetch_inc returns only values in
\* 0..modulo-1, the first call ever returns 0, and of every modulo
\* consecutive calls exactly one returns 0.
C31_FetchIncCyclesThroughModulo ==
    /\ \A n \in 1..Len(fc_returns) : fc_returns[n].value \in 0..(fc_modulo - 1)
    /\ Len(fc_returns) > 0 => fc_returns[1].value = 0
    /\ \A n \in 1..Len(fc_returns) :
          n + fc_modulo - 1 <= Len(fc_returns) => ZerosFrom(n) = 1

\* what holds of fetch_inc: the answers to a single caller, whose calls
\* cannot overlap, cycle through 0..modulo-1
C31_CyclesForOneCaller ==
    (\A n \in 1..Len(fc_returns) : fc_returns[n].caller = "c1")
        => C31_FetchIncCyclesThroughModulo

----------------------------------------------------------------------------
(* Validate for (T1, T2): validate_inputs with two validators (util/inputs.rs) *)

\* the longest input list handed to the two-validator form
MaxPairInputs == 4

\* the input lists: the kinds of the nodes behind the handles
PairInputLists == UNION {[1..n -> InputKinds] : n \in 0..MaxPairInputs}

\* inputs.rs:94: the validators (&self.0, &self.1), two capabilities
ValidatorPairs == Capabilities \X Capabilities

PairIdle ==
    /\ pv_inputs = <<>>
    /\ pv_caps = <<"ProvideNumber", "ProvideNumber">>
    /\ pv_taken = 0
    /\ pv_used = 0
    /\ pv_validated = <<>>
    /\ pv_pc = "off"
    /\ pv_result = "none"

\* inputs.rs:93-96: the two iterators and the empty Vec
PairInit ==
    /\ pv_inputs \in PairInputLists
    /\ pv_caps \in ValidatorPairs
    /\ pv_taken = 0
    /\ pv_used = 0
    /\ pv_validated = <<>>
    /\ pv_pc = "zip"
    /\ pv_result = "none"

\* inputs.rs:98-104: one round of `for (input, validator) in
\* (&mut inputs).zip(&mut validators)`. Zip asks `inputs` first and
\* `validators` only when it got an input; an input taken when the
\* validators have run out is dropped with the loop.
PvZipNext ==
    /\ pv_pc = "zip"
    /\ IF pv_taken = Len(pv_inputs)
       THEN /\ pv_pc' = "rest"
            /\ UNCHANGED <<pv_taken, pv_used, pv_validated, pv_result>>
       ELSE /\ pv_taken' = pv_taken + 1
            /\ IF pv_used = Len(pv_caps)
               THEN /\ pv_pc' = "rest"
                    /\ UNCHANGED <<pv_used, pv_validated, pv_result>>
               ELSE /\ pv_used' = pv_used + 1
                    /\ IF HasCapability(pv_inputs[pv_taken + 1], pv_caps[pv_used + 1])
                       THEN /\ pv_validated' = Append(pv_validated, pv_taken + 1)
                            /\ UNCHANGED <<pv_pc, pv_result>>
                       ELSE /\ pv_result' = "InvalidInputs"
                            /\ pv_pc' = "done"
                            /\ UNCHANGED pv_validated
    /\ UNCHANGED <<pv_inputs, pv_caps>>
    /\ UNCHANGED notPair

\* inputs.rs:106-111: an input or a validator left over is InvalidInputs,
\* otherwise Ok((validated[0], validated[1]))
PvRest ==
    /\ pv_pc = "rest"
    /\ pv_result' = IF pv_taken < Len(pv_inputs) \/ pv_used < Len(pv_caps)
                    THEN "InvalidInputs"
                    ELSE "Ok"
    /\ pv_pc' = "done"
    /\ UNCHANGED <<pv_inputs, pv_caps, pv_taken, pv_used, pv_validated>>
    /\ UNCHANGED notPair

PairNext == PvZipNext \/ PvRest

\* the list is two nodes, the first satisfying the first validator and the
\* second the second
PairMatches ==
    /\ Len(pv_inputs) = 2
    /\ HasCapability(pv_inputs[1], pv_caps[1])
    /\ HasCapability(pv_inputs[2], pv_caps[2])

\* C32: the two-validator form of validate_inputs returns Ok only for a
\* list of exactly two nodes whose first satisfies the first validator and
\* whose second the second; every other list, of any length, is answered
\* with InvalidInputs.
C32_OkOnlyForMatchingPair ==
    pv_pc = "done" =>
        pv_result = (IF PairMatches THEN "Ok" ELSE "InvalidInputs")

\* what holds of the two-validator form: the claim is true of every list
\* that does not have exactly three inputs
C32_OkOnlyForMatchingPairUnlessThreeInputs ==
    Len(pv_inputs) # 3 => C32_OkOnlyForMatchingPair

----------------------------------------------------------------------------
(* Two runs of PipelineConfig::pipeline on one definition set (load.rs) *)

\* the `type` strings of the definitions of the two runs; "bogus" and
\* "fake" are registered by no constructor
RunTypes == {"random-color", "rtsp", "bogus", "fake"}

\* load.rs:29-36: type, inputs and the option block
RunDefinitions ==
    [node_type : RunTypes, inputs : InputLists, options : OptionBlocks]

NotRun == [kind |-> "none", error |-> "", detail |-> "", sinks |-> <<>>]

\* what pipeline() returns; the returned handles are named by the
\* definitions they were registered under
RunResult(kind, error, detail, sink_names) ==
    [kind |-> kind, error |-> error, detail |-> detail, sinks |-> sink_names]

\* load.rs:133-151: the walk over the sorted names; built maps the names
\* registered so far to the kinds of their nodes
RECURSIVE Walk(_, _, _, _)
Walk(p, order, built, platform_ok) ==
    IF order = <<>> THEN "Ok"
    ELSE LET definition == p[Head(order)]
         IN  IF \E i \in 1..Len(definition.inputs) :
                    definition.inputs[i] \notin DOMAIN built
             THEN "UnknownInput"
             ELSE IF ~FromYamlOk(definition.options) THEN "InvalidOptions"
             ELSE LET result ==
                          Construct(definition.node_type,
                                    [i \in 1..Len(definition.inputs) |->
                                        built[definition.inputs[i]]],
                                    platform_ok)
                  IN  IF Propagates(result) THEN result
                      ELSE Walk(p, Tail(order),
                                [n \in DOMAIN built \cup {Head(order)} |->
                                    IF n = Head(order) THEN definition.node_type
                                    ELSE built[n]],
                                platform_ok)

\* load.rs:92-158: pipeline() when the map is iterated in the order
\* `order` and toposort answers `topo`
PipelineResult(p, order, topo, platform_ok) ==
    LET unknown == FilterSeq(order, UnknownTyped(p))
        found == CollectSinks(p, order)
    IN  IF unknown # <<>>
        THEN RunResult("err", "UnknownNode", p[Head(unknown)].node_type, <<>>)
        ELSE IF NoSink(found)
        THEN RunResult("err", "InvalidPipeline", "SourceProcessorsSinkOrder", <<>>)
        ELSE IF UndeclaredInputs(p) # {}
        THEN RunResult("panic", "", "vertices[input]", <<>>)
        ELSE IF topo = <<>> /\ DOMAIN p # {}
        THEN RunResult("err", "InvalidPipeline", "Cycle", <<>>)
        ELSE LET walked == Walk(p, topo, EmptyMap, platform_ok)
             IN  IF walked = "UnknownInput"
                 THEN RunResult("err", "InvalidPipeline", "UnknownInput", <<>>)
                 ELSE IF walked # "Ok" THEN RunResult("err", walked, "", <<>>)
                 ELSE RunResult("ok", "", "", found)

\* the orders toposort can answer: any order in which every edge points
\* forward, or none (the empty sequence) when there is a cycle
SortedOrders(p) ==
    IF UndeclaredInputs(p) # {} \/ TopoOrders(DOMAIN p, Edges(p)) = {}
    THEN {<<>>}
    ELSE TopoOrders(DOMAIN p, Edges(p))

\* every result a run on p can have
RunResults(p, platform_ok) ==
    {PipelineResult(p, order, topo, platform_ok) :
        order \in Perms(DOMAIN p), topo \in SortedOrders(p)}

RunsIdle ==
    /\ rn_definitions = EmptyMap
    /\ rn_platform = TRUE
    /\ rn_pc = "off"
    /\ rn_first = NotRun
    /\ rn_second = NotRun

RunsInit ==
    /\ \E keys \in SUBSET Names : rn_definitions \in [keys -> RunDefinitions]
    /\ rn_platform \in BOOLEAN
    /\ rn_pc = "first"
    /\ rn_first = NotRun
    /\ rn_second = NotRun

\* load.rs:92-158: the first run
RnFirst ==
    /\ rn_pc = "first"
    /\ rn_first' \in RunResults(rn_definitions, rn_platform)
    /\ rn_pc' = "second"
    /\ UNCHANGED <<rn_definitions, rn_platform, rn_second>>
    /\ UNCHANGED notRuns

\* load.rs:92-158: the second run, on the same definitions and factory
RnSecond ==
    /\ rn_pc = "second"
    /\ rn_second' \in RunResults(rn_definitions, rn_platform)
    /\ rn_pc' = "done"
    /\ UNCHANGED <<rn_definitions, rn_platform, rn_first>>
    /\ UNCHANGED notRuns

RunsNext == RnFirst \/ RnSecond

\* C34: two runs of pipeline() on the same definitions and factory give the
\* same result, the same error kind and payload or the same sinks, whatever
\* order the map is iterated in and whichever topological order is chosen.
C34_ResultDependsOnDefinitionsOnly ==
    rn_pc = "done" => rn_first = rn_second

\* what holds of two runs: both succeed, both fail or both panic; two
\* successes return the same set of sinks; two failures differ only in
\* which unknown type UnknownNode names or in which construction error of
\* the walk came first
C34_SameKindSameSinkSet ==
    rn_pc = "done" =>
        /\ rn_first.kind = rn_second.kind
        /\ Range(rn_first.sinks) = Range(rn_second.sinks)
        /\ (rn_first.error = "InvalidPipeline" \/ rn_second.error = "InvalidPipeline")
              => rn_first = rn_second
        /\ rn_first.error = "UnknownNode" <=> rn_second.error = "UnknownNode"

----------------------------------------------------------------------------
(* The specifications *)

\* the graph builder, run on every definition set within the bounds
Init == BuildInit /\ IdIdle /\ StoreIdle /\ ColorIdle
    /\ NumberIdle /\ RefIdle /\ AudioIdle /\ NodeIdle /\ FactoryIdle /\ ConstructIdle /\ EqualizerIdle /\ MergeIdle /\ SpectrumIdle /\ TickIdle /\ StreamsIdle /\ BinsIdle /\ AverageIdle /\ CounterIdle /\ PairIdle /\ RunsIdle

Next == BuildNext

Spec == Init /\ [][Next]_vars

\* the frame identity generator under concurrent callers
InitFrameId == IdInit /\ BuildIdle /\ StoreIdle /\ ColorIdle
    /\ NumberIdle /\ RefIdle /\ AudioIdle /\ NodeIdle /\ FactoryIdle /\ ConstructIdle /\ EqualizerIdle /\ MergeIdle /\ SpectrumIdle /\ TickIdle /\ StreamsIdle /\ BinsIdle /\ AverageIdle /\ CounterIdle /\ PairIdle /\ RunsIdle

NextFrameId == IdNext

SpecFrameId == InitFrameId /\ [][NextFrameId]_vars

\* one SpectrumStore pulled by concurrent callers
InitStore == StoreInit /\ BuildIdle /\ IdIdle /\ ColorIdle
    /\ NumberIdle /\ RefIdle /\ AudioIdle /\ NodeIdle /\ FactoryIdle /\ ConstructIdle /\ EqualizerIdle /\ MergeIdle /\ SpectrumIdle /\ TickIdle /\ StreamsIdle /\ BinsIdle /\ AverageIdle /\ CounterIdle /\ PairIdle /\ RunsIdle

NextStore == StoreNext

SpecStore == InitStore /\ [][NextStore]_vars

\* one RandomColor node pulled by concurrent callers
InitColor == ColorInit /\ BuildIdle /\ IdIdle /\ StoreIdle
    /\ NumberIdle /\ RefIdle /\ AudioIdle /\ NodeIdle /\ FactoryIdle /\ ConstructIdle /\ EqualizerIdle /\ MergeIdle /\ SpectrumIdle /\ TickIdle /\ StreamsIdle /\ BinsIdle /\ AverageIdle /\ CounterIdle /\ PairIdle /\ RunsIdle

NextColor == ColorNext

SpecColor == InitColor /\ [][NextColor]_vars

\* a RandomColor pulled by one driver only
NextDriver == DriverNext

SpecDriver == InitColor /\ [][NextDriver]_vars

\* the chain device -> loudness -> average, pulled by one driver while the
\* capture thread pushes samples
InitNumber ==
    NumberInit /\ BuildIdle /\ IdIdle /\ StoreIdle /\ ColorIdle /\ RefIdle /\ AudioIdle /\ NodeIdle /\ FactoryIdle /\ ConstructIdle /\ EqualizerIdle /\ MergeIdle /\ SpectrumIdle /\ TickIdle /\ StreamsIdle /\ BinsIdle /\ AverageIdle /\ CounterIdle /\ PairIdle /\ RunsIdle

NextNumber == NumberNext

SpecNumber == InitNumber /\ [][NextNumber]_vars

\* two sinks' drivers pulling shared nodes through clones of their NodeRefs
InitRef ==
    RefInit /\ BuildIdle /\ IdIdle /\ StoreIdle /\ ColorIdle /\ NumberIdle /\ AudioIdle /\ NodeIdle /\ FactoryIdle /\ ConstructIdle /\ EqualizerIdle /\ MergeIdle /\ SpectrumIdle /\ TickIdle /\ StreamsIdle /\ BinsIdle /\ AverageIdle /\ CounterIdle /\ PairIdle /\ RunsIdle

NextRef == RefNext

SpecRef == InitRef /\ [][NextRef]_vars

\* one AudioBuffer: the capture thread pushes while readers take views
InitAudio ==
    AudioInit /\ BuildIdle /\ IdIdle /\ StoreIdle /\ ColorIdle /\ NumberIdle
        /\ RefIdle /\ NodeIdle /\ FactoryIdle /\ ConstructIdle /\ EqualizerIdle /\ MergeIdle /\ SpectrumIdle /\ TickIdle /\ StreamsIdle /\ BinsIdle /\ AverageIdle /\ CounterIdle /\ PairIdle /\ RunsIdle

NextAudio == AudioNext

SpecAudio == InitAudio /\ [][NextAudio]_vars

\* one node of a built-in kind, called through the Node trait
InitNode ==
    NodeInit /\ BuildIdle /\ IdIdle /\ StoreIdle /\ ColorIdle /\ NumberIdle
        /\ RefIdle /\ AudioIdle /\ FactoryIdle /\ ConstructIdle /\ EqualizerIdle /\ MergeIdle /\ SpectrumIdle /\ TickIdle /\ StreamsIdle /\ BinsIdle /\ AverageIdle /\ CounterIdle /\ PairIdle /\ RunsIdle

NextNode == NodeNext

SpecNode == InitNode /\ [][NextNode]_vars

\* a NodeFactory being filled by default() and by the program
InitFactory ==
    FactoryInit /\ BuildIdle /\ IdIdle /\ StoreIdle /\ ColorIdle /\ NumberIdle
        /\ RefIdle /\ AudioIdle /\ NodeIdle /\ ConstructIdle /\ EqualizerIdle /\ MergeIdle /\ SpectrumIdle /\ TickIdle /\ StreamsIdle /\ BinsIdle /\ AverageIdle /\ CounterIdle /\ PairIdle /\ RunsIdle

NextFactory == FactoryNext

SpecFactory == InitFactory /\ [][NextFactory]_vars

\* one constructor call on given inputs and options, then the node's pulls
InitConstruct ==
    ConstructInit /\ BuildIdle /\ IdIdle /\ StoreIdle /\ ColorIdle /\ NumberIdle
        /\ RefIdle /\ AudioIdle /\ NodeIdle /\ FactoryIdle /\ EqualizerIdle /\ MergeIdle /\ SpectrumIdle /\ TickIdle /\ StreamsIdle /\ BinsIdle /\ AverageIdle /\ CounterIdle /\ PairIdle /\ RunsIdle

NextConstruct == ConstructNext

SpecConstruct == InitConstruct /\ [][NextConstruct]_vars

\* one equalizer drawing the spectra of its input
InitEqualizer ==
    EqualizerInit /\ BuildIdle /\ IdIdle /\ StoreIdle /\ ColorIdle /\ NumberIdle
        /\ AudioIdle /\ NodeIdle /\ FactoryIdle /\ ConstructIdle /\ RefIdle /\ MergeIdle /\ SpectrumIdle /\ TickIdle /\ StreamsIdle /\ BinsIdle /\ AverageIdle /\ CounterIdle /\ PairIdle /\ RunsIdle

NextEqualizer == EqualizerNext

SpecEqualizer == InitEqualizer /\ [][NextEqualizer]_vars

\* one Merge node built from given inputs and options, then pulled
InitMerge ==
    MergeInit /\ BuildIdle /\ IdIdle /\ StoreIdle /\ ColorIdle /\ NumberIdle
        /\ AudioIdle /\ NodeIdle /\ FactoryIdle /\ ConstructIdle /\ RefIdle
        /\ EqualizerIdle /\ SpectrumIdle /\ TickIdle /\ StreamsIdle /\ BinsIdle /\ AverageIdle /\ CounterIdle /\ PairIdle /\ RunsIdle

NextMerge == MergeNext

SpecMerge == InitMerge /\ [][NextMerge]_vars

\* one spectrum node pulled by two sinks while the capture thread pushes
InitSpectrum ==
    SpectrumInit /\ BuildIdle /\ IdIdle /\ StoreIdle /\ ColorIdle /\ NumberIdle
        /\ AudioIdle /\ NodeIdle /\ FactoryIdle /\ ConstructIdle /\ RefIdle
        /\ EqualizerIdle /\ MergeIdle /\ TickIdle /\ StreamsIdle /\ BinsIdle /\ AverageIdle /\ CounterIdle /\ PairIdle /\ RunsIdle

NextSpectrum == SpectrumNext

SpecSpectrum == InitSpectrum /\ [][NextSpectrum]_vars

\* the same under fair scheduling of the threads
SpecSpectrumLive == InitSpectrum /\ [][NextSpectrum]_vars /\ SpectrumFairness

\* the ticks of one sink over a fixed pipeline
InitTick ==
    TickInit /\ BuildIdle /\ IdIdle /\ StoreIdle /\ ColorIdle /\ NumberIdle
        /\ AudioIdle /\ NodeIdle /\ FactoryIdle /\ ConstructIdle /\ RefIdle
        /\ EqualizerIdle /\ MergeIdle /\ SpectrumIdle /\ StreamsIdle /\ BinsIdle /\ AverageIdle /\ CounterIdle /\ PairIdle /\ RunsIdle

NextTick == TickNext

SpecTick == InitTick /\ [][NextTick]_vars

\* two device sources, their handles and the stream manager
InitStreams ==
    StreamsInit /\ BuildIdle /\ IdIdle /\ StoreIdle /\ ColorIdle /\ NumberIdle
        /\ AudioIdle /\ NodeIdle /\ FactoryIdle /\ ConstructIdle /\ RefIdle
        /\ EqualizerIdle /\ MergeIdle /\ SpectrumIdle /\ TickIdle /\ BinsIdle /\ AverageIdle /\ CounterIdle /\ PairIdle /\ RunsIdle

NextStreams == StreamsNext

SpecStreams == InitStreams /\ [][NextStreams]_vars

\* one frequency-ranged store, the view it returns and the conversions on it
InitBins ==
    BinsInit /\ BuildIdle /\ IdIdle /\ StoreIdle /\ ColorIdle /\ NumberIdle
        /\ AudioIdle /\ NodeIdle /\ FactoryIdle /\ ConstructIdle /\ RefIdle
        /\ EqualizerIdle /\ MergeIdle /\ SpectrumIdle /\ TickIdle /\ StreamsIdle /\ AverageIdle /\ CounterIdle /\ PairIdle /\ RunsIdle

NextBins == BinsNext

SpecBins == InitBins /\ [][NextBins]_vars

\* two threads calling provide_number on one Average
InitAverage ==
    AverageInit /\ BuildIdle /\ IdIdle /\ StoreIdle /\ ColorIdle /\ NumberIdle
        /\ AudioIdle /\ NodeIdle /\ FactoryIdle /\ ConstructIdle /\ RefIdle
        /\ EqualizerIdle /\ MergeIdle /\ SpectrumIdle /\ TickIdle /\ StreamsIdle
        /\ BinsIdle /\ CounterIdle /\ PairIdle /\ RunsIdle

NextAverage == AverageNext

SpecAverage == InitAverage /\ [][NextAverage]_vars

\* FrameCounter::fetch_inc shared by two callers
InitCounter ==
    CounterInit /\ BuildIdle /\ IdIdle /\ StoreIdle /\ ColorIdle /\ NumberIdle
        /\ AudioIdle /\ NodeIdle /\ FactoryIdle /\ ConstructIdle /\ RefIdle
        /\ EqualizerIdle /\ MergeIdle /\ SpectrumIdle /\ TickIdle /\ StreamsIdle
        /\ BinsIdle /\ AverageIdle /\ PairIdle /\ RunsIdle

NextCounter == CounterNext

SpecCounter == InitCounter /\ [][NextCounter]_vars

\* validate_inputs with two validators on one input list
InitPair ==
    PairInit /\ BuildIdle /\ IdIdle /\ StoreIdle /\ ColorIdle /\ NumberIdle
        /\ AudioIdle /\ NodeIdle /\ FactoryIdle /\ ConstructIdle /\ RefIdle
        /\ EqualizerIdle /\ MergeIdle /\ SpectrumIdle /\ TickIdle /\ StreamsIdle
        /\ BinsIdle /\ AverageIdle /\ CounterIdle /\ RunsIdle

NextPair == PairNext

SpecPair == InitPair /\ [][NextPair]_vars

\* two runs of pipeline() on one definition set
InitRuns ==
    RunsInit /\ BuildIdle /\ IdIdle /\ StoreIdle /\ ColorIdle /\ NumberIdle
        /\ AudioIdle /\ NodeIdle /\ FactoryIdle /\ ConstructIdle /\ RefIdle
        /\ EqualizerIdle /\ MergeIdle /\ SpectrumIdle /\ TickIdle /\ StreamsIdle
        /\ BinsIdle /\ AverageIdle /\ CounterIdle /\ PairIdle

NextRuns == RunsNext

SpecRuns == InitRuns /\ [][NextRuns]_vars

====
